---- MODULE Spec2Model ----
(***************************************************************************)
(* Dryer KPI dashboard: the wagon parser, the interval builder, the energy *)
(* allocator, the KPI aggregator and the production-sequence optimizer.    *)
(*                                                                         *)
(* Conventions.  A timestamp is a number of ticks, TicksPerHour ticks to   *)
(* the hour.  A pandas cell that may be missing is a tuple: <<>> is        *)
(* NaT/NaN/None, <<v>> is the value v.  A DataFrame is a record            *)
(* [columns |-> set of column names, rows |-> sequence of rows], a row     *)
(* being a function from the column names to cells.  A raised exception    *)
(* is the record [exc |-> message].                                        *)
(***************************************************************************)
EXTENDS Integers, Sequences, FiniteSets, TLC

VARIABLES
    mode,       \* which part of the program this behaviour runs
    pc,         \* position of the running pipeline / function
    w_raw,      \* the wagon table as read from the workbook
    w,          \* parse_wagon's result
    ivals,      \* explode_intervals' result
    row,        \* build_intervals: the cells of the record read in the last iteration
    zi,         \* build_intervals: number of zones already iterated
    prev_end,   \* build_intervals: the local prev_end
    intervals,  \* build_intervals: the local intervals
    e_raw,      \* the energy table as read from the workbook
    e,          \* parse_energy's result
    alloc,      \* allocate_energy's result
    summary,    \* the monthly KPI summary
    yearly,     \* the yearly KPI summary
    run1,       \* what the first run of allocation and summary saw and returned
    impl,       \* which optimizer is called
    products,   \* the product list given to the optimizer
    historical_data, \* optimize_production_sequence: mean kWh_per_m3 by product, or None
    wagons_per_product, \* optimize: the wagons to produce by product, or None
    builder_profiles, \* the database builder's product_profiles, by product
    builder_matrix, \* the transition matrix the builder made of its profiles
    results,    \* what the invocations of the optimizer returned, in order
    tied,       \* whether a min() of an invocation had several minimisers
    manager,    \* which HistoricalDataManager class saves
    kpi_file,   \* the list pickled in kpi_history.pkl, or None without the file
    optimization_file, \* the same for optimization_history.pkl
    clock,      \* datetime.now(), which stamps the entries
    saved,      \* by file, the entries ever written to it, in the order of the writes
    sessions    \* by session, the save it is in: its step, its file, its local history

wagon_vars == <<w_raw, w, ivals>>
build_vars == <<row, zi, prev_end, intervals>>
alloc_vars == <<e_raw, e, alloc, summary, yearly, run1>>
opt_vars == <<impl, products, historical_data, wagons_per_product, builder_profiles, builder_matrix,
              results, tied>>
hist_vars == <<manager, kpi_file, optimization_file, clock, saved, sessions>>
vars == <<mode, pc, w_raw, w, ivals, row, zi, prev_end, intervals,
          e_raw, e, alloc, summary, yearly, run1,
          impl, products, historical_data, wagons_per_product, builder_profiles, builder_matrix,
          results, tied,
          manager, kpi_file, optimization_file, clock, saved, sessions>>

----------------------------------------------------------------------------
(* Bounds of the model *)

TicksPerHour == 2   \* resolution of the clock
MaxEntry == 4       \* latest zone-entry timestamp of a workbook row
MaxT == 1           \* latest entry timestamp of a wagon record given to build_intervals
MaxDur == 1         \* longest duration an input cell holds
TicksPerMonth == 4  \* the calendar, compressed: a month lasts this many ticks
MaxStamp == 2       \* latest timestamp of an energy reading or start of an interval
MaxLen == 3         \* longest zone interval given to allocate_energy
MaxHour == 2        \* latest hour of the second of two readings
MaxList == 3        \* longest of the short product lists given to an optimizer
Invocations == 2    \* how often an optimizer is invoked on the same input

----------------------------------------------------------------------------
(* pandas cells *)

NaT == <<>>
None == <<>>
Some(v) == <<v>>
isna(x) == x = <<>>
notna(x) == x # <<>>
val(x) == x[1]

\* row.get(col, default) / df.get(col, default)
Get(r, col, default) == IF col \in DOMAIN r THEN r[col] ELSE default

\* Timestamp - Timestamp and Timestamp + Timedelta; NaT is absorbing
TsSub(a, b) == IF notna(a) /\ notna(b) THEN Some(val(a) - val(b)) ELSE NaT
TsAdd(a, d) == IF notna(a) /\ notna(d) THEN Some(val(a) + val(d)) ELSE NaT

\* Series.dt.month and Series.dt.year on the compressed calendar
MonthOf(t) == IF isna(t) THEN NaT ELSE Some(((val(t) \div TicksPerMonth) % 12) + 1)
YearOf(t) == IF isna(t) THEN NaT ELSE Some(2025 + (val(t) \div (12 * TicksPerMonth)))

\* A raw workbook cell: empty, text that is no date, or a date/time.
EmptyCell == <<>>
BadCell == <<"?">>
TsCell(t) == <<"ts", t>>
NumCell(n) == <<"num", n>>

\* pd.to_datetime(col, errors="coerce"): what does not parse becomes NaT
to_datetime(c) == IF Len(c) = 2 /\ c[1] = "ts" THEN Some(c[2]) ELSE NaT
\* pd.to_numeric(col, errors="coerce")
to_numeric(c) == IF Len(c) = 2 /\ c[1] = "num" THEN Some(c[2]) ELSE NaT

RECURSIVE SeqMap(_, _)
SeqMap(Op(_), s) == IF s = <<>> THEN <<>> ELSE <<Op(Head(s))>> \o SeqMap(Op, Tail(s))

RECURSIVE SeqFilter(_, _)
SeqFilter(P(_), s) ==
    IF s = <<>> THEN <<>>
    ELSE (IF P(Head(s)) THEN <<Head(s)>> ELSE <<>>) \o SeqFilter(P, Tail(s))

RECURSIVE Flatten(_)
Flatten(ss) == IF ss = <<>> THEN <<>> ELSE Head(ss) \o Flatten(Tail(ss))

Restrict(f, S) == [c \in (DOMAIN f) \cap S |-> f[c]]

----------------------------------------------------------------------------
(* CONFIG and the zone mapping *)

zones_seq == <<"Z1", "Z2", "Z3", "Z4", "Z5">>

\* df[col] = value on one row; df.rename(columns={old: new}) on one row
Assign(r, col, v) == (col :> v) @@ r
Rename(r, old, new) == (new :> r[old]) @@ Restrict(r, (DOMAIN r) \ {old})

----------------------------------------------------------------------------
(* parse_wagon *)

\* The column names of the input tables that start with "WG-"
WGColumns == {"WG-Nr."}

keep_cols ==
    {"WG_Nr", "t0", "Produkt", "Rezept", "Stärke", "m³",
     "In Z2", "In Z3", "In Z4", "In Z5"}

\* (zone, later_col, earlier_col)
duration_pairs ==
    << <<"Z1", "Z2_in", "t0">>, <<"Z2", "Z3_in", "Z2_in">>, <<"Z3", "Z4_in", "Z3_in">>,
       <<"Z4", "Z5_in", "Z4_in">>, <<"Z5", "Entnahme-Zeit", "Z5_in">> >>

cols_to_drop ==
    {"Z2_in", "Z3_in", "Z4_in", "Z5_in", "Z1_in",
     "Z5_dur_calc", "Z1_dur", "Z2_dur", "Z3_dur", "Z4_dur", "Z5_dur"}

\* parse_duration_series on one cell: a duration text becomes a Timedelta,
\* anything else NaT
parse_duration_series(c) == IF Len(c) = 2 /\ c[1] = "dur" THEN Some(c[2]) ELSE NaT

\* lines 141-149: t0 from "Pressdat. + Zeit" (every input table has the column)
wagon_t0(r) == Assign(r, "t0", to_datetime(r["Pressdat. + Zeit"]))

\* lines 151-155: the first column whose name starts with "WG-" becomes WG_Nr
wagon_rename(r) ==
    IF (DOMAIN r) \cap WGColumns # {}
    THEN Rename(r, CHOOSE c \in (DOMAIN r) \cap WGColumns : TRUE, "WG_Nr")
    ELSE r

\* lines 157-163: keep only the needed columns
wagon_keep(r) == Restrict(r, keep_cols)

\* lines 165-170: the volume, in units of 1e-9 m3 when it comes from the thickness
wagon_m3(r) ==
    IF "m³" \in DOMAIN r
    THEN Assign(r, "m3", to_numeric(r["m³"]))
    ELSE LET staerke == to_numeric(Get(r, "Stärke", NumCell(0)))
         IN  Assign(r, "m3", IF isna(staerke) THEN NaT
                             ELSE Some(366025 * (val(staerke) + 7)))

\* lines 172-187: zone entry timestamps, Z1 entry, exit timestamp
RECURSIVE wagon_entries(_, _)
wagon_entries(r, zs) ==
    IF zs = <<>> THEN r
    ELSE LET z == Head(zs)
             raw_col == "In " \o z
             new_col == z \o "_in"
         IN  wagon_entries(Assign(r, new_col,
                                  IF raw_col \in DOMAIN r THEN to_datetime(r[raw_col])
                                  ELSE NaT),
                           Tail(zs))

wagon_exit(r) ==
    LET r1 == Assign(r, "Z1_in", r["t0"])
    IN  IF "Entnahme-Zeit" \in DOMAIN r1
        THEN Assign(r1, "Entnahme-Zeit", to_datetime(r1["Entnahme-Zeit"]))
        ELSE Assign(r1, "Entnahme-Zeit", NaT)

\* lines 189-201: the calculated durations (hours in the source, ticks here)
RECURSIVE wagon_dur_calc(_, _)
wagon_dur_calc(r, pairs) ==
    IF pairs = <<>> THEN r
    ELSE LET p == Head(pairs)
         IN  wagon_dur_calc(Assign(r, p[1] \o "_dur_calc", TsSub(r[p[2]], r[p[3]])),
                            Tail(pairs))

\* lines 203-218: the text duration wins when it parses and is at least one hour
RECURSIVE wagon_dur(_, _)
wagon_dur(r, zs) ==
    IF zs = <<>> THEN r
    ELSE LET z == Head(zs)
             text_col == "Zeit in " \o z
             calc == r[z \o "_dur_calc"]
             parsed == parse_duration_series(r[text_col])
             mask_replace == isna(parsed) \/ val(parsed) < TicksPerHour
             dur == IF text_col \in DOMAIN r
                    THEN (IF mask_replace THEN calc ELSE parsed)
                    ELSE calc
         IN  wagon_dur(Assign(r, z \o "_dur", dur), Tail(zs))

\* lines 220-222
wagon_month(r) == Assign(Assign(r, "Month", MonthOf(r["t0"])), "Year", YearOf(r["t0"]))

\* lines 227-232
wagon_drop(r) == Restrict(r, (DOMAIN r) \ cols_to_drop)

\* lines 141-222: every column parse_wagon computes, before the final drop
wagon_columns(r) ==
    wagon_month(wagon_dur(wagon_dur_calc(wagon_exit(
        wagon_entries(wagon_m3(wagon_keep(wagon_rename(wagon_t0(r)))),
                      <<"Z2", "Z3", "Z4", "Z5">>)), duration_pairs), zones_seq))

parse_wagon_row(r) == wagon_drop(wagon_columns(r))

\* The columns of the result are those of any row; an empty table keeps the
\* columns the same steps give a row of the input's columns.
parse_wagon(df) ==
    LET rows == SeqFilter(LAMBDA r : notna(r["t0"]), SeqMap(parse_wagon_row, df.rows))
        blank == [c \in df.columns |-> EmptyCell]
    IN  [columns |-> DOMAIN parse_wagon_row(blank), rows |-> rows]

----------------------------------------------------------------------------
(* build_intervals *)

\* One iteration of the loop over CONFIG["zones_seq"], from the locals
\* st = [intervals, prev_end] to the locals after the iteration.
\* the same iteration with prev_end moved to the computed end of every leg,
\* emitted or not
build_intervals_zone_always_moves(r, zone, st) ==
    LET rec_in == Get(r, zone \o "_in", NaT)
        zone_in == IF isna(rec_in)
                   THEN (IF st.prev_end # None THEN st.prev_end ELSE r["t0"])
                   ELSE rec_in
        zone_dur == Get(r, zone \o "_dur", NaT)
        zone_out == IF notna(zone_in) /\ notna(zone_dur) THEN TsAdd(zone_in, zone_dur)
                    ELSE NaT
    IN  IF notna(zone_in) /\ notna(zone_out) /\ val(zone_out) > val(zone_in)
        THEN [intervals |-> Append(st.intervals, <<zone, val(zone_in), val(zone_out)>>),
              prev_end |-> zone_out]
        ELSE [intervals |-> st.intervals,
              prev_end |-> IF notna(zone_out) THEN zone_out ELSE st.prev_end]

build_intervals_zone(r, zone, st) ==
    LET rec_in == Get(r, zone \o "_in", NaT)
        zone_in == IF isna(rec_in)
                   THEN (IF st.prev_end # None THEN st.prev_end ELSE r["t0"])
                   ELSE rec_in
        zone_dur == Get(r, zone \o "_dur", NaT)
        zone_out == IF notna(zone_in) /\ notna(zone_dur) THEN TsAdd(zone_in, zone_dur)
                    ELSE NaT
    IN  IF notna(zone_in) /\ notna(zone_out) /\ val(zone_out) > val(zone_in)
        THEN [intervals |-> Append(st.intervals, <<zone, val(zone_in), val(zone_out)>>),
              prev_end |-> zone_out]
        ELSE st

RECURSIVE build_intervals_from(_, _, _)
build_intervals_from(r, zs, st) ==
    IF zs = <<>> THEN st.intervals
    ELSE build_intervals_from(r, Tail(zs), build_intervals_zone(r, Head(zs), st))

build_intervals(r) == build_intervals_from(r, zones_seq, [intervals |-> <<>>, prev_end |-> None])

----------------------------------------------------------------------------
(* explode_intervals *)

explode_columns ==
    {"WG_Nr", "Produkt", "Stärke", "m3", "Zone", "P_start", "P_end", "Month", "Year"}

\* the dict appended for one interval of one record
explode_row(record, iv) ==
    [c \in explode_columns |->
        CASE c = "WG_Nr" -> record["WG_Nr"]
          [] c = "Produkt" -> record["Produkt"]
          [] c = "Stärke" -> Get(record, "Stärke", NaT)
          [] c = "m3" -> record["m3"]
          [] c = "Zone" -> iv[1]
          [] c = "P_start" -> iv[2]
          [] c = "P_end" -> iv[3]
          [] c = "Month" -> record["Month"]
          [] c = "Year" -> Get(record, "Year", NaT)]

\* record[...] on a missing column raises KeyError, and only when the record
\* has an interval
explode_raises(df) ==
    \E i \in 1..Len(df.rows) :
        /\ build_intervals(df.rows[i]) # <<>>
        /\ {"WG_Nr", "Produkt", "m3", "Month"} \ DOMAIN df.rows[i] # {}

explode_intervals(df) ==
    IF explode_raises(df) THEN [exc |-> "KeyError"]
    ELSE LET rows == Flatten(SeqMap(LAMBDA record :
                         SeqMap(LAMBDA iv : explode_row(record, iv), build_intervals(record)),
                         df.rows))
         IN  [columns |-> IF rows = <<>> THEN {} ELSE explode_columns, rows |-> rows]

----------------------------------------------------------------------------
(* The wagon pipeline: read the workbook, parse_wagon, explode_intervals *)

RawColumns ==
    {"WG-Nr.", "Pressdat. + Zeit", "Produkt", "Stärke", "m³",
     "In Z2", "In Z3", "In Z4", "In Z5", "Entnahme-Zeit",
     "Zeit in Z1", "Zeit in Z2", "Zeit in Z3", "Zeit in Z4", "Zeit in Z5"}

\* The wagon tables of the model: no row or one row; with or without the
\* wagon-number and volume columns.
RawSchemas == {RawColumns, RawColumns \ {"WG-Nr.", "m³"}}

EntryCells == {EmptyCell} \cup {TsCell(t) : t \in 0..MaxEntry}

RawRows(columns) ==
    {[c \in columns |->
        CASE c = "WG-Nr." -> "W1"
          [] c = "Pressdat. + Zeit" -> start
          [] c = "Produkt" -> "L36"
          [] c = "Stärke" -> NumCell(36)
          [] c = "m³" -> NumCell(15000000)
          [] c = "In Z2" -> z2
          [] c = "In Z3" -> z3
          [] c = "In Z4" -> z4
          [] c = "In Z5" -> z5
          [] c = "Entnahme-Zeit" -> TsCell(MaxEntry + 1)
          [] OTHER -> <<"dur", TicksPerHour>>] :
     start \in {BadCell, TsCell(0)}, z2 \in EntryCells, z3 \in EntryCells,
     z4 \in EntryCells, z5 \in EntryCells}

RawTables ==
    UNION {{[columns |-> cs, rows |-> <<>>]} \cup
           {[columns |-> cs, rows |-> <<r>>] : r \in RawRows(cs)} : cs \in RawSchemas}

NoTable == [columns |-> {}, rows |-> <<>>]
NoRow == <<>>
NoRun == <<>>

\* the variables of the energy pipeline while another part of the program runs
AllocIdle ==
    /\ e_raw = NoTable /\ e = NoTable /\ alloc = NoTable
    /\ summary = {} /\ yearly = {} /\ run1 = NoRun

\* the variables of the optimizer while another part of the program runs
OptIdle ==
    /\ impl = "none" /\ products = <<>> /\ historical_data = None
    /\ wagons_per_product = None
    /\ builder_profiles = <<>> /\ builder_matrix = <<>>
    /\ results = <<>> /\ tied = FALSE

\* the variables of the history while another part of the program runs
HistIdle ==
    /\ manager = "none" /\ kpi_file = None /\ optimization_file = None
    /\ clock = 0 /\ saved = <<>> /\ sessions = <<>>

Init_Wagon ==
    /\ mode = "wagon"
    /\ HistIdle
    /\ pc = "loaded"
    /\ w_raw \in RawTables
    /\ w = NoTable
    /\ ivals = NoTable
    /\ row = NoRow /\ zi = 0 /\ prev_end = None /\ intervals = <<>>
    /\ AllocIdle
    /\ OptIdle

\* w = parse_wagon(w_raw)
ParseWagon ==
    /\ mode = "wagon" /\ pc = "loaded"
    /\ w' = parse_wagon(w_raw)
    /\ pc' = "parsed"
    /\ UNCHANGED <<hist_vars, mode, w_raw, ivals, build_vars, alloc_vars, opt_vars>>

\* ivals = explode_intervals(w)
ExplodeIntervals ==
    /\ mode = "wagon" /\ pc = "parsed"
    /\ ivals' = explode_intervals(w)
    /\ pc' = IF "exc" \in DOMAIN explode_intervals(w) THEN "raised" ELSE "exploded"
    /\ UNCHANGED <<hist_vars, mode, w_raw, w, build_vars, alloc_vars, opt_vars>>

----------------------------------------------------------------------------
(* build_intervals on a wagon record, one zone of the loop per step *)

InCells == {NaT} \cup {Some(t) : t \in 0..MaxT}
DurCells == {NaT} \cup {Some(d) : d \in 0..MaxDur}

Init_Build ==
    /\ mode = "build"
    /\ HistIdle
    /\ pc = "loop"
    /\ row \in {("t0" :> t) : t \in {NaT, Some(0), Some(1)}}
    /\ zi = 0
    /\ prev_end = None
    /\ intervals = <<>>
    /\ w_raw = NoTable /\ w = NoTable /\ ivals = NoTable
    /\ AllocIdle
    /\ OptIdle

\* one iteration: the record's cells for the zone are read, the locals updated
BuildZone ==
    /\ mode = "build" /\ pc = "loop"
    /\ zi < Len(zones_seq)
    /\ \E zone_in \in InCells, zone_dur \in DurCells :
         LET zone == zones_seq[zi + 1]
             r == ("t0" :> row["t0"]) @@ ((zone \o "_in") :> zone_in)
                      @@ ((zone \o "_dur") :> zone_dur)
             st == build_intervals_zone(r, zone,
                       [intervals |-> intervals, prev_end |-> prev_end])
         IN  /\ row' = r
             /\ intervals' = st.intervals
             /\ prev_end' = st.prev_end
    /\ zi' = zi + 1
    /\ pc' = IF zi + 1 = Len(zones_seq) THEN "returned" ELSE "loop"
    /\ UNCHANGED <<hist_vars, mode, wagon_vars, alloc_vars, opt_vars>>

Next_Wagon == ParseWagon \/ ExplodeIntervals \/ BuildZone

SpecWagon == (Init_Wagon \/ Init_Build) /\ [][Next_Wagon]_vars

----------------------------------------------------------------------------
(* Claims on the interval builder *)

ZoneIndex(z) == CHOOSE i \in 1..Len(zones_seq) : zones_seq[i] = z

\* the zones of a list of (zone, start, end) intervals
ZonesOf(ivs) == [i \in 1..Len(ivs) |-> ivs[i][1]]

\* C1: the intervals build_intervals has emitted are in zone order, pairwise
\* non-overlapping (no interval starts before the end of an earlier one) and of
\* strictly positive duration, for any wagon record.
C1_IntervalsOrderedDisjoint ==
    mode = "build" =>
        /\ \A i \in 1..Len(intervals) : intervals[i][3] > intervals[i][2]
        /\ \A i, j \in 1..Len(intervals) :
               i < j => /\ ZoneIndex(intervals[i][1]) < ZoneIndex(intervals[j][1])
                        /\ intervals[j][2] >= intervals[i][3]

\* The zones a workbook row validly passed through: those for which
\* parse_wagon computed an entry time and a positive duration.
ValidZones(r) ==
    SeqFilter(LAMBDA z : /\ notna(wagon_columns(r)[z \o "_in"])
                         /\ notna(wagon_columns(r)[z \o "_dur"])
                         /\ val(wagon_columns(r)[z \o "_dur"]) > 0,
              zones_seq)

\* a row with a valid dryer start and valid, increasing zone entries
AllEntriesValid(r) ==
    /\ notna(to_datetime(r["Pressdat. + Zeit"]))
    /\ \A z \in {"Z2", "Z3", "Z4", "Z5"} : notna(to_datetime(r["In " \o z]))
    /\ val(to_datetime(r["In Z2"])) > val(to_datetime(r["Pressdat. + Zeit"]))
    /\ val(to_datetime(r["In Z3"])) > val(to_datetime(r["In Z2"]))
    /\ val(to_datetime(r["In Z4"])) > val(to_datetime(r["In Z3"]))
    /\ val(to_datetime(r["In Z5"])) > val(to_datetime(r["In Z4"]))

\* C2: for a row that went through parse_wagon with a valid dryer start, valid
\* zone entries and positive durations, explode_intervals emits exactly one
\* interval per zone the wagon validly passed through, in zone order.
C2_OneIntervalPerValidZone ==
    (mode = "wagon" /\ pc \in {"exploded", "raised"} /\ w_raw.rows # <<>>
        /\ AllEntriesValid(w_raw.rows[1]))
    => /\ pc = "exploded"
       /\ [i \in 1..Len(ivals.rows) |-> ivals.rows[i]["Zone"]] = ValidZones(w_raw.rows[1])

----------------------------------------------------------------------------
(* parse_energy *)

\* (zone label, zone name), in the order of the dict
ZONE_ENERGY_MAPPING ==
    << <<"Z2", "Zone 2">>, <<"Z3", "Zone 3">>, <<"Z4", "Zone 4">>, <<"Z5", "Zone 5">> >>

\* CONFIG["gas_to_kwh"] = 11.5, energies being counted in tenths of a kWh
gas_to_kwh == 115

gas_col(zone_name) == "Gasmenge, " \o zone_name \o " [m³]"
energy_col(zone_name) == "E_" \o zone_name \o "_kWh"

\* a numeric cell times a number; NaN stays NaN
NumMul(c, k) == IF isna(c) THEN c ELSE Some(val(c) * k)

\* lines 99-108: gas volume to energy for every zone that has a gas column
RECURSIVE energy_convert(_, _)
energy_convert(r, zs) ==
    IF zs = <<>> THEN r
    ELSE LET zone_name == Head(zs)[2]
         IN  energy_convert(
                 IF gas_col(zone_name) \in DOMAIN r
                 THEN Assign(r, energy_col(zone_name),
                             NumMul(r[gas_col(zone_name)], gas_to_kwh))
                 ELSE r,
                 Tail(zs))

\* lines 114-116: the one-hour window of a reading
energy_window_2h(r) ==
    Assign(Assign(r, "E_start", r["Zeitstempel"]),
           "E_end", TsAdd(r["Zeitstempel"], Some(2 * TicksPerHour)))

energy_window(r) ==
    Assign(Assign(r, "E_start", r["Zeitstempel"]),
           "E_end", TsAdd(r["Zeitstempel"], Some(TicksPerHour)))

parse_energy_row(r) ==
    LET r1 == Assign(r, "Zeitstempel", to_datetime(r["Zeitstempel"]))
        r2 == Assign(Assign(r1, "Month", MonthOf(r1["Zeitstempel"])),
                     "Year", YearOf(r1["Zeitstempel"]))
        r3 == energy_convert(r2, ZONE_ENERGY_MAPPING)
        r4 == IF "Energieverbrauch, elektr. [kWh]" \in DOMAIN r3
              THEN Assign(r3, "E_el_kWh", r3["Energieverbrauch, elektr. [kWh]"])
              ELSE r3
    IN  energy_window(r4)

\* lines 118-119: rows without a timestamp are removed
parse_energy(df) ==
    [columns |-> DOMAIN parse_energy_row([c \in df.columns |-> EmptyCell]),
     rows |-> SeqFilter(LAMBDA r : notna(r["Zeitstempel"]),
                        SeqMap(parse_energy_row, df.rows))]

----------------------------------------------------------------------------
(* allocate_energy *)

Max2(a, b) == IF a >= b THEN a ELSE b
Min2(a, b) == IF a <= b THEN a ELSE b

\* line 326: the readings whose value for the zone is present and positive
e_zone(edf, ecol) == SeqFilter(LAMBDA r : notna(r[ecol]) /\ val(r[ecol]) > 0, edf.rows)

\* line 331: the intervals of the zone
ivals_zone(idf, zone_label) == SeqFilter(LAMBDA r : r["Zone"] = zone_label, idf.rows)

\* lines 335-339: the cross join, a row being the pair of a reading and an interval
cross_join(es, ps) ==
    Flatten(SeqMap(LAMBDA er : SeqMap(LAMBDA pr : [e |-> er, p |-> pr], ps), es))

\* lines 341-345
time_overlaps(m) ==
    /\ m.p["P_end"] > val(m.e["E_start"])
    /\ m.p["P_start"] < val(m.e["E_end"])

\* lines 350-355: the overlap, in ticks (hours times TicksPerHour)
overlap_h_whole_interval(m) == Max2(m.p["P_end"] - m.p["P_start"], 0)

overlap_h(m) ==
    LET latest_start == Max2(val(m.e["E_start"]), m.p["P_start"])
        earliest_end == Min2(val(m.e["E_end"]), m.p["P_end"])
    IN  Max2(earliest_end - latest_start, 0)

\* lines 363-364: the energy share of row k of merged, in kWh/10 times ticks
energy_share_partitioned(merged, k, ecol) ==
    (val(merged[k].e[ecol]) * overlap_h(merged[k]))
        \div Cardinality({j \in 1..Len(merged) : merged[j].e = merged[k].e})

energy_share(merged, k, ecol) == val(merged[k].e[ecol]) * overlap_h(merged[k])

alloc_columns == {"Month", "Produkt", "m3", "Energy_share_kWh", "Overlap_h", "Zone"}

\* lines 318-373: the rows one zone adds to results (none where the loop continues)
allocate_zone(edf, idf, zone_label, zone_name) ==
    LET ecol == energy_col(zone_name)
        merged1 == SeqFilter(time_overlaps,
                             cross_join(e_zone(edf, ecol), ivals_zone(idf, zone_label)))
        merged == SeqFilter(LAMBDA m : overlap_h(m) > 0, merged1)
    IN  IF ecol \notin edf.columns THEN <<>>
        ELSE IF e_zone(edf, ecol) = <<>> THEN <<>>
        ELSE IF ivals_zone(idf, zone_label) = <<>> THEN <<>>
        ELSE [k \in 1..Len(merged) |->
                [c \in alloc_columns |->
                    CASE c = "Month" -> merged[k].e["Month"]
                      [] c = "Produkt" -> merged[k].p["Produkt"]
                      [] c = "m3" -> merged[k].p["m3"]
                      [] c = "Energy_share_kWh" -> energy_share(merged, k, ecol)
                      [] c = "Overlap_h" -> overlap_h(merged[k])
                      [] c = "Zone" -> zone_label]]

\* line 331 raises KeyError when the interval table has no Zone column, for the
\* first zone that has readings to allocate
allocate_raises(edf, idf) ==
    /\ "Zone" \notin idf.columns
    /\ \E i \in 1..Len(ZONE_ENERGY_MAPPING) :
          LET ecol == energy_col(ZONE_ENERGY_MAPPING[i][2])
          IN  ecol \in edf.columns /\ e_zone(edf, ecol) # <<>>

\* the value returned: the concatenated results, or the empty frame of line 381
allocate_energy(edf, idf) ==
    IF allocate_raises(edf, idf) THEN [exc |-> "KeyError"]
    ELSE [columns |-> alloc_columns,
          rows |-> Flatten(SeqMap(LAMBDA zm : allocate_zone(edf, idf, zm[1], zm[2]),
                                  ZONE_ENERGY_MAPPING))]

\* '_key' is added to the copies made at lines 326 and 331, never to the
\* caller's tables: what the caller's tables hold after the call
with_key(df) ==
    [columns |-> df.columns \cup {"_key"},
     rows |-> SeqMap(LAMBDA r : Assign(r, "_key", 1), df.rows)]

allocate_energy_args_inplace(edf, idf) == [e |-> with_key(edf), ivals |-> with_key(idf)]

allocate_energy_args(edf, idf) == [e |-> edf, ivals |-> idf]

----------------------------------------------------------------------------
(* the monthly and the yearly summary *)

RECURSIVE SumSeq(_)
SumSeq(ns) == IF ns = <<>> THEN 0 ELSE Head(ns) + SumSeq(Tail(ns))

RECURSIVE SumSet(_, _)
SumSet(f(_), S) ==
    IF S = {} THEN 0 ELSE LET x == CHOOSE y \in S : TRUE IN f(x) + SumSet(f, S \ {x})

\* "sum" of a column of cells: NaN is skipped
sum_cells(cells) ==
    SumSeq(SeqMap(LAMBDA c : val(c), SeqFilter(LAMBDA c : notna(c), cells)))

\* Series.replace(0, np.nan) / Series.replace(0, pd.NA) on one value
replace_zero(v) == IF v = 0 THEN NaT ELSE Some(v)

\* float division a / b: the quotient as the pair <<a, b>>; a nonzero number
\* over zero is an infinity <<1, 0>> or <<-1, 0>>, 0/0 and x/NaN are NaN
divide(a, b) ==
    IF isna(b) THEN NaT
    ELSE IF val(b) # 0 THEN Some(<<a, val(b)>>)
    ELSE IF a = 0 THEN NaT
    ELSE Some(<<IF a > 0 THEN 1 ELSE -1, 0>>)

\* Energy_kWh / Volume_m3.replace(0, nan)
kwh_per_m3_unguarded(energy, volume) == divide(energy, Some(volume))

kwh_per_m3(energy, volume) == divide(energy, replace_zero(volume))

\* alloc.groupby(["Month", "Produkt", "Zone"]).agg(sum, sum) with the ratio;
\* the result has one row per key, in key order: it is the set of its rows
monthly_summary(adf) ==
    LET keys == {<<adf.rows[i]["Month"], adf.rows[i]["Produkt"], adf.rows[i]["Zone"]>> :
                    i \in 1..Len(adf.rows)}
        group(key) == SeqFilter(LAMBDA r : <<r["Month"], r["Produkt"], r["Zone"]>> = key,
                                adf.rows)
        Energy_kWh(key) == SumSeq(SeqMap(LAMBDA r : r["Energy_share_kWh"], group(key)))
        Volume_m3(key) == sum_cells(SeqMap(LAMBDA r : r["m3"], group(key)))
    IN  {[Month |-> key[1], Produkt |-> key[2], Zone |-> key[3],
          Energy_kWh |-> Energy_kWh(key), Volume_m3 |-> Volume_m3(key),
          kWh_per_m3 |-> kwh_per_m3(Energy_kWh(key), Volume_m3(key))] : key \in keys}

\* summary.groupby(["Produkt", "Zone"]).agg(sum, sum) with the ratio
yearly_summary(sm) ==
    LET keys == {<<r.Produkt, r.Zone>> : r \in sm}
        group(key) == {r \in sm : <<r.Produkt, r.Zone>> = key}
        Energy_kWh(key) == SumSet(LAMBDA r : r.Energy_kWh, group(key))
        Volume_m3(key) == SumSet(LAMBDA r : r.Volume_m3, group(key))
    IN  {[Produkt |-> key[1], Zone |-> key[2],
          Energy_kWh |-> Energy_kWh(key), Volume_m3 |-> Volume_m3(key),
          kWh_per_m3 |-> kwh_per_m3(Energy_kWh(key), Volume_m3(key))] : key \in keys}

----------------------------------------------------------------------------
(* The energy pipeline: parse_energy, allocate_energy, the summaries, and a
   second run of allocation and summaries on the same tables *)

EnergyColumns ==
    {"Zeitstempel", gas_col("Zone 2"), gas_col("Zone 3"),
     "Energieverbrauch, elektr. [kWh]"}

\* a row of the energy workbook; the gas volumes are numbers or NaN
EnergyRow(stamp, gas2, gas3) ==
    [c \in EnergyColumns |->
        CASE c = "Zeitstempel" -> stamp
          [] c = gas_col("Zone 2") -> gas2
          [] c = gas_col("Zone 3") -> gas3
          [] OTHER -> Some(10)]

\* a row of the interval table, as explode_intervals writes it
IntervalRow(wg, produkt, m3, zone, start, len) ==
    [c \in explode_columns |->
        CASE c = "WG_Nr" -> wg
          [] c = "Produkt" -> produkt
          [] c = "Stärke" -> Some(36)
          [] c = "m3" -> m3
          [] c = "Zone" -> zone
          [] c = "P_start" -> start
          [] c = "P_end" -> start + len
          [] c = "Month" -> MonthOf(Some(start))
          [] c = "Year" -> YearOf(Some(start))]

Table(columns, rows) == [columns |-> columns, rows |-> rows]

\* one reading and at most one interval: any timestamp, any kind of gas value
PairInputs ==
    {<<Table(EnergyColumns, <<EnergyRow(stamp, gas2, gas3)>>), it>> :
        stamp \in {BadCell} \cup {TsCell(t) : t \in 0..MaxStamp},
        gas2 \in {NaT, Some(0), Some(-4), Some(4)},
        gas3 \in {Some(0), Some(4)},
        it \in {NoTable} \cup
               {Table(explode_columns, <<IntervalRow("W1", "L36", Some(15), zone, start, len)>>) :
                   zone \in {"Z1", "Z2", "Z3"}, start \in 0..MaxStamp, len \in 1..MaxLen}}

\* two hourly readings and two wagons, the first wagon in its zone for a whole
\* hour or longer
ManyInputs ==
    {<<Table(EnergyColumns,
             <<EnergyRow(TsCell(0), Some(4), Some(4)),
               EnergyRow(TsCell(hour * TicksPerHour), Some(8), Some(4))>>),
       Table(explode_columns,
             <<IntervalRow("W1", "L36", m1, "Z2", start1, len1),
               IntervalRow("W2", produkt2, m2, zone2, start2, len2)>>)>> :
        hour \in 0..MaxHour,
        m1 \in {NaT, Some(15)}, start1 \in 0..1, len1 \in {TicksPerHour, MaxLen},
        produkt2 \in {"L36", "N40"}, zone2 \in {"Z2", "Z3"},
        m2 \in {Some(0), Some(15)}, start2 \in 0..MaxStamp, len2 \in 1..MaxLen}

Init_Alloc ==
    /\ mode = "alloc"
    /\ HistIdle
    /\ pc = "loaded"
    /\ \E input \in PairInputs \cup ManyInputs : e_raw = input[1] /\ ivals = input[2]
    /\ e = NoTable /\ alloc = NoTable /\ summary = {} /\ yearly = {} /\ run1 = NoRun
    /\ w_raw = NoTable /\ w = NoTable
    /\ row = NoRow /\ zi = 0 /\ prev_end = None /\ intervals = <<>>
    /\ OptIdle

\* e = parse_energy(e_raw)
ParseEnergy ==
    /\ mode = "alloc" /\ pc = "loaded"
    /\ e' = parse_energy(e_raw)
    /\ pc' = "parsed"
    /\ UNCHANGED <<hist_vars, mode, e_raw, ivals, alloc, summary, yearly, run1, w_raw, w, build_vars, opt_vars>>

\* alloc = allocate_energy(e, ivals)
AllocateEnergy ==
    /\ mode = "alloc" /\ pc = "parsed"
    /\ alloc' = allocate_energy(e, ivals)
    /\ e' = allocate_energy_args(e, ivals).e
    /\ ivals' = allocate_energy_args(e, ivals).ivals
    /\ pc' = IF "exc" \in DOMAIN allocate_energy(e, ivals) THEN "raised" ELSE "allocated"
    /\ UNCHANGED <<hist_vars, mode, e_raw, summary, yearly, run1, w_raw, w, build_vars, opt_vars>>

\* the monthly and the yearly summary of alloc
Summarize ==
    /\ mode = "alloc" /\ pc = "allocated"
    /\ summary' = monthly_summary(alloc)
    /\ yearly' = yearly_summary(monthly_summary(alloc))
    /\ pc' = "summarized"
    /\ UNCHANGED <<hist_vars, mode, e_raw, e, ivals, alloc, run1, w_raw, w, build_vars, opt_vars>>

\* the caller keeps the results and runs allocation and summary again on the
\* same tables
RunAgain ==
    /\ mode = "alloc" /\ pc = "summarized" /\ run1 = NoRun
    /\ run1' = [e |-> e, ivals |-> ivals, alloc |-> alloc,
                summary |-> summary, yearly |-> yearly]
    /\ pc' = "parsed"
    /\ UNCHANGED <<hist_vars, mode, e_raw, e, ivals, alloc, summary, yearly, w_raw, w, build_vars, opt_vars>>

Next_Alloc == ParseEnergy \/ AllocateEnergy \/ Summarize \/ RunAgain

SpecAlloc == Init_Alloc /\ [][Next_Alloc]_vars

----------------------------------------------------------------------------
(* Claims about the energy pipeline *)

Allocated == mode = "alloc" /\ pc \in {"allocated", "summarized"}

\* the pairs the cross join of one zone forms
C3_Pairs(zone_label, zone_name) ==
    IF energy_col(zone_name) \in e.columns /\ "Zone" \in ivals.columns
    THEN cross_join(e_zone(e, energy_col(zone_name)), ivals_zone(ivals, zone_label))
    ELSE <<>>

\* max(0, min(reading end, interval end) - max(reading start, interval start))
C3_Overlap(er, pr) ==
    LET lo == IF val(er["E_start"]) > pr["P_start"] THEN val(er["E_start"]) ELSE pr["P_start"]
        hi == IF val(er["E_end"]) < pr["P_end"] THEN val(er["E_end"]) ELSE pr["P_end"]
    IN  IF hi - lo > 0 THEN hi - lo ELSE 0

C3_Records(zone_label, zone_name) ==
    Flatten(SeqMap(
        LAMBDA m : IF C3_Overlap(m.e, m.p) > 0
                   THEN << [c \in alloc_columns |->
                              CASE c = "Month" -> m.e["Month"]
                                [] c = "Produkt" -> m.p["Produkt"]
                                [] c = "m3" -> m.p["m3"]
                                [] c = "Energy_share_kWh" ->
                                       val(m.e[energy_col(zone_name)]) * C3_Overlap(m.e, m.p)
                                [] c = "Overlap_h" -> C3_Overlap(m.e, m.p)
                                [] c = "Zone" -> zone_label] >>
                   ELSE <<>>,
        C3_Pairs(zone_label, zone_name)))

\* one reading and one interval of its zone that span the same hour
C3_Coincide ==
    /\ Len(e.rows) = 1 /\ Len(ivals.rows) = 1
    /\ ivals.rows[1]["Zone"] = "Z2"
    /\ notna(e.rows[1][energy_col("Zone 2")]) /\ val(e.rows[1][energy_col("Zone 2")]) > 0
    /\ isna(e.rows[1][energy_col("Zone 3")]) \/ val(e.rows[1][energy_col("Zone 3")]) <= 0
    /\ ivals.rows[1]["P_start"] = val(e.rows[1]["E_start"])
    /\ ivals.rows[1]["P_end"] = val(e.rows[1]["E_end"])

\* C3: for every pair of a reading and an interval of the same zone that the
\* cross join forms, allocate_energy emits a record exactly when
\* max(0, min(ends) - max(starts)) is positive, with that overlap and with the
\* share zone energy times overlap; an interval that coincides with the
\* reading's hour gives exactly one record, of overlap one hour and of share
\* the full zone energy.
C3_RecordIffOverlap ==
    Allocated =>
        /\ alloc.rows = Flatten(SeqMap(LAMBDA zm : C3_Records(zm[1], zm[2]),
                                       ZONE_ENERGY_MAPPING))
        /\ C3_Coincide =>
              /\ Len(alloc.rows) = 1
              /\ alloc.rows[1]["Overlap_h"] = TicksPerHour
              /\ alloc.rows[1]["Energy_share_kWh"] =
                     val(e.rows[1][energy_col("Zone 2")]) * TicksPerHour

C3_Witness ==
    /\ Allocated /\ C3_Coincide
    /\ Len(alloc.rows) = 1
    /\ alloc.rows[1]["Energy_share_kWh"] = 4 * gas_to_kwh * TicksPerHour

\* the window of the reading and the interval share no time
C4_Disjoint(m) ==
    \/ m.p["P_end"] <= val(m.e["E_start"])
    \/ m.p["P_start"] >= val(m.e["E_end"])

C4_AllPairs ==
    Flatten(SeqMap(LAMBDA zm : C3_Pairs(zm[1], zm[2]), ZONE_ENERGY_MAPPING))

\* C4: every parsed reading window is exactly one hour long; for any reading
\* and interval the overlap computed lies between 0 and one hour, and it is 0
\* exactly when window and interval are disjoint or only touch; the overlap
\* of every record is positive and at most one hour.
C4_OverlapWithinHour ==
    (mode = "alloc" /\ pc # "loaded") =>
        /\ \A i \in 1..Len(e.rows) :
              val(e.rows[i]["E_end"]) - val(e.rows[i]["E_start"]) = TicksPerHour
        /\ \A k \in 1..Len(C4_AllPairs) :
              /\ overlap_h(C4_AllPairs[k]) \in 0..TicksPerHour
              /\ overlap_h(C4_AllPairs[k]) = 0 <=> C4_Disjoint(C4_AllPairs[k])
        /\ Allocated =>
              \A i \in 1..Len(alloc.rows) : alloc.rows[i]["Overlap_h"] \in 1..TicksPerHour

\* an interval longer than the hour it covers, and one that only touches it
C4_Witness ==
    /\ Allocated
    /\ Len(e.rows) = 2 /\ Len(ivals.rows) = 2
    /\ ivals.rows[1]["P_end"] - ivals.rows[1]["P_start"] > TicksPerHour
    /\ ivals.rows[1]["P_start"] = val(e.rows[1]["E_start"])
    /\ ivals.rows[2]["Zone"] = "Z2"
    /\ ivals.rows[2]["P_start"] = val(e.rows[1]["E_end"])
    /\ val(e.rows[2]["E_start"]) > ivals.rows[2]["P_end"]
    /\ Len(alloc.rows) = 1
    /\ alloc.rows[1]["Overlap_h"] = TicksPerHour

\* how often a record occurs in a sequence of records
Count(x, rows) == Cardinality({i \in 1..Len(rows) : rows[i] = x})

\* the interval table holding only row j of ivals
OnlyInterval(j) == [columns |-> ivals.columns, rows |-> <<ivals.rows[j]>>]

\* C5: the records (overlap and share) one interval gets are those it gets when
\* it is the only interval in the table: the allocation is, record for
\* record, the sum of the allocations of the intervals taken alone, so the
\* shares of one reading and zone may add up to more than the metered energy.
C5_AdditiveNotPartitioned ==
    (Allocated /\ ivals.rows # <<>>) =>
        /\ Len(alloc.rows) =
              SumSet(LAMBDA j : Len(allocate_energy(e, OnlyInterval(j)).rows),
                     1..Len(ivals.rows))
        /\ \A i \in 1..Len(alloc.rows) :
              Count(alloc.rows[i], alloc.rows) =
                  SumSet(LAMBDA j : Count(alloc.rows[i],
                                          allocate_energy(e, OnlyInterval(j)).rows),
                         1..Len(ivals.rows))

\* a wagon in the zone for the whole hour of a reading and a second one for a
\* part of it: the two shares exceed the energy metered in that hour
C5_Witness ==
    /\ Allocated
    /\ Len(ivals.rows) = 2 /\ Len(alloc.rows) = 2
    /\ alloc.rows[1]["Zone"] = "Z2" /\ alloc.rows[2]["Zone"] = "Z2"
    /\ alloc.rows[1]["Overlap_h"] = TicksPerHour
    /\ alloc.rows[2]["Overlap_h"] \in 1..(TicksPerHour - 1)
    /\ alloc.rows[1]["Energy_share_kWh"] = 4 * gas_to_kwh * TicksPerHour
    /\ alloc.rows[2]["Energy_share_kWh"] = 4 * gas_to_kwh * alloc.rows[2]["Overlap_h"]
    /\ alloc.rows[1]["Energy_share_kWh"] + alloc.rows[2]["Energy_share_kWh"]
           > 4 * gas_to_kwh * TicksPerHour

C7_Group(keep(_)) == {i \in 1..Len(alloc.rows) : keep(alloc.rows[i])}

C7_Energy(G) == SumSet(LAMBDA i : alloc.rows[i]["Energy_share_kWh"], G)

C7_Volume(G) ==
    SumSet(LAMBDA i : IF alloc.rows[i]["m3"] = NaT THEN 0 ELSE alloc.rows[i]["m3"][1], G)

C7_RowOk(r, G) ==
    /\ r.Energy_kWh = C7_Energy(G)
    /\ r.Volume_m3 = C7_Volume(G)
    /\ r.kWh_per_m3 = NaT <=> C7_Volume(G) = 0
    /\ C7_Volume(G) # 0 => r.kWh_per_m3 = <<(<<C7_Energy(G), C7_Volume(G)>>)>>

\* C7: in every row of the monthly and of the yearly summary, kWh_per_m3 is
\* null exactly when the summed volume of the group is zero, and is otherwise
\* the summed energy over the summed volume; no division by zero happens.
C7_RatioNullIffZeroVolume ==
    (mode = "alloc" /\ pc = "summarized") =>
        /\ \A r \in summary :
              C7_RowOk(r, C7_Group(LAMBDA a : /\ a["Month"] = r.Month
                                              /\ a["Produkt"] = r.Produkt
                                              /\ a["Zone"] = r.Zone))
        /\ \A r \in yearly :
              C7_RowOk(r, C7_Group(LAMBDA a : /\ a["Produkt"] = r.Produkt
                                              /\ a["Zone"] = r.Zone))

\* one group whose volume sums to zero and one whose volume does not
C7_Witness ==
    /\ mode = "alloc" /\ pc = "summarized"
    /\ \E r \in summary : r.Volume_m3 = 0 /\ r.Energy_kWh > 0 /\ r.kWh_per_m3 = NaT
    /\ \E r \in summary : r.Volume_m3 # 0 /\ r.kWh_per_m3 = <<(<<r.Energy_kWh, r.Volume_m3>>)>>
    /\ \E r \in yearly : r.Volume_m3 = 0 /\ r.kWh_per_m3 = NaT
    /\ \E r \in yearly : r.Volume_m3 # 0 /\ r.kWh_per_m3 # NaT

----------------------------------------------------------------------------
(* The optimization database (build_optimization_database.py).  Costs of the
   database are counted in hundredths of a kWh. *)

\* the product names that occur, with their first letter and their digits
ProductNames ==
    {"L20", "L30", "L40", "L50", "N20", "N22", "N25", "N35", "N45", "U60", "X99"}

NameLetter ==
    [p \in ProductNames |->
        CASE p \in {"L20", "L30", "L40", "L50"} -> "L"
          [] p \in {"N20", "N22", "N25", "N35", "N45"} -> "N"
          [] p = "U60" -> "U"
          [] OTHER -> "X"]

NameDigits ==
    ("L20" :> 20) @@ ("L30" :> 30) @@ ("L40" :> 40) @@ ("L50" :> 50) @@
    ("N20" :> 20) @@ ("N22" :> 22) @@ ("N25" :> 25) @@ ("N35" :> 35) @@
    ("N45" :> 45) @@ ("U60" :> 60) @@ ("X99" :> 99)

\* re.search(r'\d+', product): every name here has digits
_extract_thickness(product) == NameDigits[product]

_extract_type(product) == NameLetter[product]

\* the products the database was built for (X99 is not one of them)
Catalogue == ProductNames \ {"X99"}

\* the energy figures the database was built from, in kWh per m3
avg_kwh_per_m3(product) ==
    100 + _extract_thickness(product) + (IF _extract_type(product) = "N" THEN 5 ELSE 0)

\* energy per wagon, in hundredths of a kWh
kwh_per_wagon(product) == 100 * (400 + _extract_thickness(product))

product_profiles ==
    [p \in Catalogue |->
        [type |-> _extract_type(p),
         thickness_mm |-> _extract_thickness(p),
         avg_kwh_per_m3 |-> avg_kwh_per_m3(p),
         kwh_per_wagon |-> kwh_per_wagon(p),
         zone_profiles |-> IF _extract_type(p) = "U" THEN <<>>
                           ELSE ("Z2" :> [kwh_per_m3 |-> avg_kwh_per_m3(p)])]]

Abs(x) == IF x < 0 THEN -x ELSE x

\* _calculate_transition_cost on the builder's profiles, whose avg_kwh_per_m3
\* is a float that may be NaN (a cell): 3 kWh per mm, 50 kWh for a change of
\* type, 0.8 per kWh/m3 of average energy, 0.2 per kWh/m3 of each zone both
\* profiles have; round(cost, 2) is exact on these values and keeps NaN
transition_cost_in(profs, prod1, prod2) ==
    LET profile1 == profs[prod1]
        profile2 == profs[prod2]
        zones == {zone \in {"Z2", "Z3", "Z4", "Z5"} :
                     /\ zone \in DOMAIN profile1.zone_profiles
                     /\ zone \in DOMAIN profile2.zone_profiles}
    IN  IF isna(profile1.avg_kwh_per_m3) \/ isna(profile2.avg_kwh_per_m3) THEN NaT
        ELSE Some(300 * Abs(profile1.thickness_mm - profile2.thickness_mm)
                  + (IF profile1.type # profile2.type THEN 5000 ELSE 0)
                  + 80 * Abs(val(profile1.avg_kwh_per_m3) - val(profile2.avg_kwh_per_m3))
                  + SumSet(LAMBDA zone : 20 * Abs(profile1.zone_profiles[zone].kwh_per_m3
                                                  - profile2.zone_profiles[zone].kwh_per_m3),
                           zones))

\* calculate_transition_matrix on the builder's profiles
transition_matrix_of(profs) ==
    [prod1 \in DOMAIN profs |->
        [prod2 \in DOMAIN profs |->
            IF prod1 = prod2 THEN Some(0) ELSE transition_cost_in(profs, prod1, prod2)]]

\* the profiles of the catalogue, every energy being a number
catalogue_profiles ==
    [p \in Catalogue |->
        [product_profiles[p] EXCEPT !.avg_kwh_per_m3 = Some(product_profiles[p].avg_kwh_per_m3)]]

_calculate_transition_cost(prod1, prod2) ==
    val(transition_cost_in(catalogue_profiles, prod1, prod2))

calculate_transition_matrix ==
    [prod1 \in Catalogue |->
        [prod2 \in Catalogue |->
            IF prod1 = prod2 THEN 0 ELSE _calculate_transition_cost(prod1, prod2)]]

----------------------------------------------------------------------------
(* Helpers of the optimizers *)

Range(s) == {s[i] : i \in 1..Len(s)}

Reverse(s) == [i \in 1..Len(s) |-> s[Len(s) + 1 - i]]

MinOf(S) == CHOOSE x \in S : \A y \in S : x <= y

MaxOf(S) == CHOOSE x \in S : \A y \in S : x >= y

\* s without its k-th element
Without(s, k) == SubSeq(s, 1, k - 1) \o SubSeq(s, k + 1, Len(s))

\* "if cost < best_cost"
Below(a, b) == a < b

\* the optimizer that runs and the historical data it was given
Ctx(which, hd) == [impl |-> which, hd |-> hd]

\* dryer_kpi_app.py: costs are counted in tenths of a kWh
calculate_product_characteristics(product) ==
    <<NameLetter[product], NameDigits[product]>>

\* hd is None or <<means>>, means giving the mean kWh_per_m3 of the products
\* that have rows in historical_data
calculate_transition_cost(prod1, prod2, hd) ==
    LET c1 == calculate_product_characteristics(prod1)
        c2 == calculate_product_characteristics(prod2)
    IN  25 * Abs(c2[2] - c1[2])
        + (IF c1[1] # c2[1] THEN 250 ELSE 0)
        + (IF hd # None /\ prod1 \in DOMAIN hd[1] /\ prod2 \in DOMAIN hd[1]
           THEN 8 * Abs(hd[1][prod2] - hd[1][prod1])
           ELSE 0)

\* the cost of going from product a to product b, as the running optimizer
\* looks it up: self.transitions[a][b], or calculate_transition_cost
Transition(ctx, a, b) ==
    IF ctx.impl = "app" THEN calculate_transition_cost(a, b, ctx.hd)
    ELSE calculate_transition_matrix[a][b]

\* _calculate_sequence_cost, _calculate_cost and the sums of
\* optimize_production_sequence
RECURSIVE _calculate_sequence_cost(_, _)
_calculate_sequence_cost(ctx, sequence) ==
    IF Len(sequence) < 2 THEN 0
    ELSE Transition(ctx, sequence[1], sequence[2])
         + _calculate_sequence_cost(ctx, Tail(sequence))

\* the loop "for perm in permutations(products)" over the permutations that
\* begin with prefix and go on with the elements of rest: itertools yields
\* them in the order of the positions in the list, so those that go on with
\* rest[1] come first, then those with rest[2], ...  The value is best_seq and
\* best_cost after these permutations (a later permutation replaces the best
\* only when it costs strictly less, so the first of the cheapest is kept)
\* and, of all_costs, the largest, the sum and the number.
\* all_costs is kept by optimize_production_sequence only
OnePermutation(ctx, perm, cost) ==
    IF ctx.impl = "app"
    THEN [best_seq |-> perm, best_cost |-> cost, max_cost |-> cost, sum_costs |-> cost,
          n_costs |-> 1]
    ELSE [best_seq |-> perm, best_cost |-> cost, max_cost |-> 0, sum_costs |-> 0,
          n_costs |-> 0]

\* a search that lets a later permutation of equal cost replace the best: the
\* index of the last of the cheapest parts
LastCheapest(part) ==
    CHOOSE k \in 1..Len(part) :
        /\ \A j \in 1..Len(part) : ~Below(part[j].best_cost, part[k].best_cost)
        /\ \A j \in (k + 1)..Len(part) : Below(part[k].best_cost, part[j].best_cost)

\* the index of the first of the cheapest parts
FirstCheapest(part) ==
    CHOOSE k \in 1..Len(part) :
        /\ \A j \in 1..Len(part) : ~Below(part[j].best_cost, part[k].best_cost)
        /\ \A j \in 1..(k - 1) : Below(part[k].best_cost, part[j].best_cost)

InTurn(part) ==
    [best_seq |-> part[FirstCheapest(part)].best_seq,
     best_cost |-> part[FirstCheapest(part)].best_cost,
     max_cost |-> MaxOf({part[k].max_cost : k \in 1..Len(part)}),
     sum_costs |-> SumSeq([k \in 1..Len(part) |-> part[k].sum_costs]),
     n_costs |-> SumSeq([k \in 1..Len(part) |-> part[k].n_costs])]

RECURSIVE PermutationsFrom(_, _, _)
PermutationsFrom(ctx, prefix, rest) ==
    IF rest = <<>>
    THEN OnePermutation(ctx, prefix, _calculate_sequence_cost(ctx, prefix))
    ELSE CHOOSE found \in
             {InTurn(part) :
                 part \in {[k \in 1..Len(rest) |->
                              PermutationsFrom(ctx, Append(prefix, rest[k]),
                                               Without(rest, k))]}} : TRUE

_exhaustive_search(ctx, prods) == PermutationsFrom(ctx, <<>>, prods)

\* sorted(s, key = thickness): stable
RECURSIVE SortedByThickness(_)
SortedByThickness(s) ==
    IF s = <<>> THEN <<>>
    ELSE LET init == SortedByThickness(SubSeq(s, 1, Len(s) - 1))
             x == s[Len(s)]
             k == Cardinality({i \in 1..Len(init) : NameDigits[init[i]] <= NameDigits[x]})
         IN  SubSeq(init, 1, k) \o <<x>> \o SubSeq(init, k + 1, Len(init))

\* the elements of S that min(S, key = ...) can return, key being the thickness
thinnest_any(S) == S

thinnest(S) == {p \in S : \A q \in S : NameDigits[p] <= NameDigits[q]}

\* the key of the min() that picks the first product of a greedy sequence:
\* the thickness, or in optimize_production_sequence with historical data
\* energy_map.get(x, 100)
StartKey(ctx, p) ==
    IF ctx.impl = "app" /\ ctx.hd # None
    THEN (IF p \in DOMAIN ctx.hd[1] THEN ctx.hd[1][p] ELSE 100)
    ELSE NameDigits[p]

\* the products the first min() can return: the first minimiser in the
\* iteration order of the set, whatever that order is
first_product(ctx, remaining) ==
    IF ctx.impl = "app" /\ ctx.hd # None
    THEN {p \in remaining : \A q \in remaining : StartKey(ctx, p) <= StartKey(ctx, q)}
    ELSE thinnest(remaining)

\* what a greedy step minimises: in _intelligent_sequence ten times
\* immediate + 0.3 * (cheapest transition from the candidate to another
\* remaining product), in the other two the transition cost
Score(ctx, current, next_prod, remaining) ==
    IF ctx.impl = "simple"
    THEN 10 * Transition(ctx, current, next_prod)
         + (IF Cardinality(remaining) > 1
            THEN 3 * MinOf({Transition(ctx, next_prod, fp) : fp \in remaining \ {next_prod}})
            ELSE 0)
    ELSE Transition(ctx, current, next_prod)

\* the products a greedy step can take
best_next(ctx, current, remaining) ==
    {p \in remaining :
        \A q \in remaining : Score(ctx, current, p, remaining) <= Score(ctx, current, q, remaining)}

\* whether several products have the least key / the least score
StartTied(ctx, remaining) ==
    \E p, q \in remaining :
        /\ p # q /\ StartKey(ctx, p) = StartKey(ctx, q)
        /\ \A r \in remaining : StartKey(ctx, p) <= StartKey(ctx, r)

StepTied(ctx, current, remaining) ==
    \E p, q \in remaining :
        /\ p # q
        /\ Score(ctx, current, p, remaining) = Score(ctx, current, q, remaining)
        /\ \A r \in remaining :
              Score(ctx, current, p, remaining) <= Score(ctx, current, r, remaining)

\* "while remaining": every way the loop can finish the sequence, with
\* whether one of its steps met a tie
RECURSIVE GreedyLoop(_, _, _)
GreedyLoop(ctx, current, remaining) ==
    IF remaining = {} THEN {[sequence |-> <<>>, tied |-> FALSE]}
    ELSE UNION {
            {[sequence |-> <<p>> \o r.sequence,
              tied |-> r.tied \/ StepTied(ctx, current, remaining)] :
                r \in GreedyLoop(ctx, p, remaining \ {p})} :
            p \in best_next(ctx, current, remaining)}

\* remaining = set(products), the first product, then the loop
Greedy(ctx, prods) ==
    UNION {
        {[sequence |-> <<c>> \o r.sequence,
          tied |-> r.tied \/ StartTied(ctx, Range(prods))] :
            r \in GreedyLoop(ctx, c, Range(prods) \ {c})} :
        c \in first_product(ctx, Range(prods))}

Simple == Ctx("simple", None)
Fallback == Ctx("fallback", None)

----------------------------------------------------------------------------
(* simple_optimizer.py: SimpleProductionOptimizer *)

_intelligent_sequence(prods) == Greedy(Simple, prods)

_worst_case(prods) ==
    LET sorted_by_thickness == SortedByThickness(prods)
        half == Len(prods) \div 2
        thin == SubSeq(sorted_by_thickness, 1, half)
        thick == Reverse(SubSeq(sorted_by_thickness, half + 1, Len(prods)))
        zipped == Flatten([i \in 1..Min2(Len(thin), Len(thick)) |-> <<thin[i], thick[i]>>])
        worst_seq == zipped \o SubSeq(thin, Len(thick) + 1, Len(thin))
                            \o SubSeq(thick, Len(thin) + 1, Len(thick))
    IN  [worst_seq |-> worst_seq, cost |-> _calculate_sequence_cost(Simple, worst_seq)]

\* the same with the best cost as the denominator
savings_percent_of_best(best_cost, worst_cost) ==
    IF best_cost > 0
    THEN (2000 * (worst_cost - best_cost) + best_cost) \div (2 * best_cost)
    ELSE 0

\* (worst - best) / worst * 100 rounded to one decimal, in tenths of a percent
savings_percent(best_cost, worst_cost) ==
    IF worst_cost > 0
    THEN (2000 * (worst_cost - best_cost) + worst_cost) \div (2 * worst_cost)
    ELSE 0

\* "if not products"
no_products_never(prods) == FALSE

no_products(prods) == Len(prods) = 0

\* one dict per consecutive pair of the sequence
_analyze_transitions(sequence) ==
    [i \in 1..(Len(sequence) - 1) |->
        [from |-> sequence[i],
         to |-> sequence[i + 1],
         cost_kwh |-> calculate_transition_matrix[sequence[i]][sequence[i + 1]],
         thickness_change |-> product_profiles[sequence[i + 1]].thickness_mm
                                  - product_profiles[sequence[i]].thickness_mm,
         type_change |-> product_profiles[sequence[i]].type
                             # product_profiles[sequence[i + 1]].type,
         energy_change |-> product_profiles[sequence[i + 1]].avg_kwh_per_m3
                               - product_profiles[sequence[i]].avg_kwh_per_m3]]

\* "if cost > 100" (kWh, here in hundredths), "avg_kwh_per_m3 > 100" and
\* "if total_wagons > 100"
high_cost_kwh == 10000
high_energy_kwh_per_m3 == 100
high_volume_wagons == 100

\* "if wagons_per_product": neither None nor the empty dict
has_wagons(wagons) == wagons # None /\ DOMAIN wagons[1] # {}

\* wagons_per_product.get(prod, 0)
wagons_of(wagons, prod) == IF prod \in DOMAIN wagons[1] THEN wagons[1][prod] ELSE 0

\* sum(wagons_per_product.values())
total_wagons(wagons) == SumSet(LAMBDA prod : wagons[1][prod], DOMAIN wagons[1])

\* the recommendations, each kept as what it says instead of its text: for
\* every consecutive pair the high-cost item and the type-change item, then
\* the high-energy products, then the high volume
_generate_recommendations(sequence, wagons) ==
    LET cost(i) == calculate_transition_matrix[sequence[i]][sequence[i + 1]]
        type_change(i) == product_profiles[sequence[i]].type
                              # product_profiles[sequence[i + 1]].type
        pair(i) ==
            (IF cost(i) > high_cost_kwh
             THEN <<[kind |-> "high_cost", from |-> sequence[i], to |-> sequence[i + 1],
                     cost_kwh |-> cost(i)]>>
             ELSE <<>>)
            \o (IF type_change(i)
                THEN <<[kind |-> "type_change", from |-> sequence[i], to |-> sequence[i + 1]]>>
                ELSE <<>>)
        energy_intensive ==
            SeqFilter(LAMBDA q : product_profiles[q].avg_kwh_per_m3 > high_energy_kwh_per_m3,
                      sequence)
    IN  Flatten([i \in 1..(Len(sequence) - 1) |-> pair(i)])
        \o (IF energy_intensive # <<>>
            THEN <<[kind |-> "high_energy", products |-> energy_intensive]>>
            ELSE <<>>)
        \o (IF has_wagons(wagons) /\ total_wagons(wagons) > high_volume_wagons
            THEN <<[kind |-> "high_volume", total_wagons |-> total_wagons(wagons)]>>
            ELSE <<>>)

\* None without wagons, else the dict of the three energies (hundredths of a kWh)
_estimate_total_energy(sequence, wagons) ==
    IF ~has_wagons(wagons) THEN None
    ELSE LET production_energy ==
                 SumSeq([i \in 1..Len(sequence) |->
                            product_profiles[sequence[i]].kwh_per_wagon
                                * wagons_of(wagons, sequence[i])])
             transition_energy == _calculate_sequence_cost(Simple, sequence)
         IN  Some([production_kwh |-> production_energy,
                   transition_kwh |-> transition_energy,
                   total_kwh |-> production_energy + transition_energy])

\* the dict returned; an outcome is a value optimize can return, with whether
\* a min() on the way had several minimisers
optimize_result(best_seq, worst_cost, wagons) ==
    [optimal_sequence |-> best_seq,
     total_transition_cost |-> _calculate_sequence_cost(Simple, best_seq),
     worst_case_cost |-> worst_cost,
     savings_percent |-> savings_percent(_calculate_sequence_cost(Simple, best_seq),
                                         worst_cost),
     transitions |-> _analyze_transitions(best_seq),
     recommendations |-> _generate_recommendations(best_seq, wagons),
     estimated_total_energy |-> _estimate_total_energy(best_seq, wagons)]

optimize(prods, wagons) ==
    LET invalid == SeqFilter(LAMBDA q : q \notin DOMAIN product_profiles, prods)
    IN  IF no_products(prods)
        THEN {[result |-> [error |-> "No products specified"], tied |-> FALSE]}
        ELSE IF Len(prods) = 1
        THEN {[result |-> [optimal_sequence |-> prods, total_cost |-> 0, savings |-> 0,
                           reason |-> "Single product - no optimization needed"],
               tied |-> FALSE]}
        ELSE IF invalid # <<>>
        THEN {[result |-> [error |-> "Unknown products", invalid |-> invalid],
               tied |-> FALSE]}
        ELSE IF Len(prods) <= 8
        THEN {[result |-> optimize_result(best_seq, _worst_case(prods).cost, wagons),
               tied |-> FALSE] : best_seq \in {_exhaustive_search(Simple, prods).best_seq}}
        ELSE {[result |-> optimize_result(o.sequence, _worst_case(prods).cost, wagons),
               tied |-> o.tied] : o \in _intelligent_sequence(prods)}

----------------------------------------------------------------------------
(* apps/dryer_optimization.py: the embedded SimpleProductionOptimizer *)

_greedy_search(prods) == Greedy(Fallback, prods)

\* the recommendations of the embedded optimizer: for every transition the
\* high-cost item and the material-change item
fallback_recommendations(transitions) ==
    Flatten([i \in 1..Len(transitions) |->
        (IF transitions[i].cost_kwh > high_cost_kwh
         THEN <<[kind |-> "high_cost", from |-> transitions[i].from, to |-> transitions[i].to]>>
         ELSE <<>>)
        \o (IF transitions[i].type_change
            THEN <<[kind |-> "type_change", from |-> transitions[i].from,
                    to |-> transitions[i].to]>>
            ELSE <<>>)])

fallback_result(best_seq) ==
    [optimal_sequence |-> best_seq,
     total_transition_cost |-> _calculate_sequence_cost(Fallback, best_seq),
     worst_case_cost |-> _calculate_sequence_cost(Fallback, Reverse(best_seq)),
     savings_percent |-> savings_percent(_calculate_sequence_cost(Fallback, best_seq),
                                         _calculate_sequence_cost(Fallback, Reverse(best_seq))),
     transitions |-> _analyze_transitions(best_seq),
     recommendations |-> fallback_recommendations(_analyze_transitions(best_seq)),
     estimated_total_energy |-> None]

\* a product without profile makes self.transitions[...] raise KeyError
fallback_optimize(prods) ==
    IF Len(prods) = 0 \/ Len(prods) < 1
    THEN {[result |-> [error |-> "No products specified"], tied |-> FALSE]}
    ELSE IF Len(prods) = 1
    THEN {[result |-> [optimal_sequence |-> prods, total_transition_cost |-> 0,
                       worst_case_cost |-> 0, savings_percent |-> 0,
                       transitions |-> <<>>, recommendations |-> <<>>,
                       estimated_total_energy |-> None],
           tied |-> FALSE]}
    ELSE IF \E i \in 1..Len(prods) : prods[i] \notin DOMAIN calculate_transition_matrix
    THEN {[result |-> [exc |-> "KeyError"], tied |-> FALSE]}
    ELSE IF Len(prods) <= 8
    THEN {[result |-> fallback_result(best_seq), tied |-> FALSE] :
             best_seq \in {_exhaustive_search(Fallback, prods).best_seq}}
    ELSE {[result |-> fallback_result(o.sequence), tied |-> o.tied] :
             o \in _greedy_search(prods)}

----------------------------------------------------------------------------
(* dryer_kpi_app.py: optimize_production_sequence *)

\* best_order with the segment i..j reversed
Reversed2Opt(best_order, i, j) ==
    SubSeq(best_order, 1, i - 1) \o Reverse(SubSeq(best_order, i, j))
        \o SubSeq(best_order, j + 1, Len(best_order))

\* "while improved": the first reversal in the order of the two loops that
\* lowers the cost is applied, until none does
RECURSIVE two_opt(_, _)
two_opt(ctx, best_order) ==
    LET n == Len(best_order)
        old_cost == _calculate_sequence_cost(ctx, best_order)
        improving == {ij \in (2..(n - 1)) \X (3..n) :
                         /\ ij[2] > ij[1]
                         /\ _calculate_sequence_cost(ctx, Reversed2Opt(best_order, ij[1], ij[2]))
                                < old_cost}
        first == CHOOSE ij \in improving :
                     \A other \in improving :
                         \/ ij[1] < other[1]
                         \/ ij[1] = other[1] /\ ij[2] <= other[2]
    IN  IF improving = {} THEN best_order
        ELSE two_opt(ctx, Reversed2Opt(best_order, first[1], first[2]))

\* worst_order[::2] + worst_order[1::2][::-1] of the list sorted by thickness
zigzag(prods) ==
    LET worst_order == SortedByThickness(prods)
        even == SeqFilter(LAMBDA i : i % 2 = 1, [i \in 1..Len(prods) |-> i])
        odd == SeqFilter(LAMBDA i : i % 2 = 0, [i \in 1..Len(prods) |-> i])
    IN  [i \in 1..Len(even) |-> worst_order[even[i]]]
        \o Reverse([i \in 1..Len(odd) |-> worst_order[odd[i]]])

\* a quotient num / den kept as the pair of its terms
Ratio(num, den) == <<num, den>>

metrics(best_cost, worst_cost, sum_costs, n_costs) ==
    [best_cost |-> best_cost,
     worst_cost |-> worst_cost,
     avg_cost |-> Ratio(sum_costs, n_costs),
     savings_vs_worst |-> IF worst_cost > 0 THEN Ratio(worst_cost - best_cost, worst_cost)
                          ELSE Ratio(0, 1),
     savings_vs_avg |-> IF sum_costs > 0 THEN Ratio(sum_costs - n_costs * best_cost, sum_costs)
                        ELSE Ratio(0, 1)]

optimize_production_sequence(prods, hd) ==
    LET ctx == Ctx("app", hd)
        heuristic(o) ==
            LET best_order == two_opt(ctx, o.sequence)
                best_cost == _calculate_sequence_cost(ctx, best_order)
                worst_cost == _calculate_sequence_cost(ctx, zigzag(prods))
            IN  [best_order |-> best_order, best_cost |-> best_cost,
                 metrics |-> metrics(best_cost, worst_cost, best_cost + worst_cost, 2)]
    IN  IF Len(prods) <= 1
        THEN {[result |-> [best_order |-> prods, best_cost |-> 0, metrics |-> <<>>],
               tied |-> FALSE]}
        ELSE IF Len(prods) <= 7
        THEN {[result |-> [best_order |-> all.best_seq, best_cost |-> all.best_cost,
                           metrics |-> metrics(all.best_cost, all.max_cost,
                                               all.sum_costs, all.n_costs)],
               tied |-> FALSE] : all \in {_exhaustive_search(ctx, prods)}}
        ELSE {[result |-> heuristic(o), tied |-> o.tied] : o \in Greedy(ctx, prods)}

----------------------------------------------------------------------------
(* The optimizers, each invoked on one product list, more than once *)

\* the names the short lists are made of; X99 has no profile in the database
ShortNames == {"L20", "L30", "N22", "X99"}

ShortLists == UNION {[1..n -> ShortNames] : n \in 0..MaxList}

\* eight products, the same with the thicker U60, and the same with N20,
\* which is as thin as L20
List8 == <<"L20", "L30", "L40", "L50", "N22", "N25", "N35", "N45">>
List9 == List8 \o <<"U60">>
List9Tie == List8 \o <<"N20">>

\* nine products on which the nearest product is not always the product of
\* least lookahead score: after L50 the nearest is U60, the least score has N35
List9Look == <<"L20", "L30", "L40", "L50", "N20", "N22", "N25", "N35", "U60">>

\* nine products, one of them named twice
List9Twice == List8 \o <<"L30">>

\* eight products whose zigzag order is cheaper than the order the greedy
\* search with 2-opt of optimize_production_sequence ends in
List8Zigzag == <<"L20", "L30", "L40", "L50", "N22", "N35", "N45", "U60">>

ProductLists ==
    ShortLists \cup {List8, List9, List9Tie, List9Look, List9Twice, List8Zigzag}

\* the wagons_per_product given with a short list: none, the empty dict, a
\* small week and a week of more than a hundred wagons
Demands ==
    {None, Some(<<>>), Some("L20" :> 10), Some(("L20" :> 60) @@ ("N22" :> 60))}

\* mean kWh_per_m3 of the products that have rows in the historical data
HistoricalMeans == ("L20" :> 120) @@ ("L30" :> 90) @@ ("N22" :> 110)

Init_Opt ==
    /\ mode = "opt"
    /\ HistIdle
    /\ pc = "ready"
    /\ \E which \in {"simple", "fallback", "app"} :
          /\ impl = which
          /\ historical_data \in IF which = "app" THEN {None, Some(HistoricalMeans)}
                                 ELSE {None}
    /\ products \in ProductLists
    /\ wagons_per_product \in IF impl \in {"simple", "fallback"} /\ products \in ShortLists
                              THEN Demands ELSE {None}
    /\ builder_profiles = <<>> /\ builder_matrix = <<>>
    /\ results = <<>>
    /\ tied = FALSE
    /\ w_raw = NoTable /\ w = NoTable /\ ivals = NoTable
    /\ row = NoRow /\ zi = 0 /\ prev_end = None /\ intervals = <<>>
    /\ AllocIdle

\* the caller receives one of the values the call can return
Returned(outcomes) ==
    /\ Len(results) < Invocations
    /\ \E o \in outcomes :
          /\ results' = Append(results, o.result)
          /\ tied' = (tied \/ o.tied)
    /\ pc' = "returned"
    /\ UNCHANGED <<hist_vars, mode, impl, products, historical_data, wagons_per_product,
                   builder_profiles, builder_matrix, wagon_vars, build_vars, alloc_vars>>

\* SimpleProductionOptimizer.optimize(products) of simple_optimizer.py
Optimize ==
    mode = "opt" /\ impl = "simple" /\ Returned(optimize(products, wagons_per_product))

\* SimpleProductionOptimizer.optimize(products) of apps/dryer_optimization.py
FallbackOptimize == mode = "opt" /\ impl = "fallback" /\ Returned(fallback_optimize(products))

\* optimize_production_sequence(products, historical_data) of dryer_kpi_app.py
OptimizeProductionSequence ==
    /\ mode = "opt" /\ impl = "app"
    /\ Returned(optimize_production_sequence(products, historical_data))

Next_Opt == Optimize \/ FallbackOptimize \/ OptimizeProductionSequence

SpecOpt == Init_Opt /\ [][Next_Opt]_vars

----------------------------------------------------------------------------
(* Claims about the optimizers *)

\* the sequence a result carries
SequenceOf(result) ==
    IF "best_order" \in DOMAIN result THEN result.best_order ELSE result.optimal_sequence

\* the least cost of a sequence that starts with the product at position last
\* and goes through the positions of left
RECURSIVE C8_Cheapest(_, _, _, _)
C8_Cheapest(ctx, prods, last, left) ==
    IF left = {} THEN 0
    ELSE MinOf({Transition(ctx, prods[last], prods[j])
                    + C8_Cheapest(ctx, prods, j, left \ {j}) : j \in left})

\* the least cost of a permutation of prods
C8_MinCost(ctx, prods) ==
    MinOf({C8_Cheapest(ctx, prods, i, (1..Len(prods)) \ {i}) : i \in 1..Len(prods)})

\* C8: for every list of 2 to 8 known products, the sequence an optimizer
\* returns costs no more than any permutation of the list.
C8_OptimalUpToEight ==
    (mode = "opt" /\ Len(products) \in 2..8 /\ Range(products) \subseteq Catalogue)
    => \A k \in 1..Len(results) :
          _calculate_sequence_cost(Ctx(impl, historical_data), SequenceOf(results[k]))
              <= C8_MinCost(Ctx(impl, historical_data), products)

\* C9 as stated: two invocations on the same products, profiles and costs
\* return the same sequence and the same cost, on the exhaustive and on the
\* greedy path.
C9_SameResultTwice ==
    (mode = "opt" /\ impl \in {"simple", "fallback"} /\ Len(results) >= 2)
    => results[1] = results[2]

\* C9: two invocations on the same products, profiles and costs return the
\* same result on the exhaustive path, and on the greedy path whenever the
\* first product and every next product is the only minimiser of its min();
\* where several products tie, the product taken depends on the iteration
\* order of the set.
C9_SameResultUnlessTie ==
    (mode = "opt" /\ Len(results) >= 2 /\ ~tied) => results[1] = results[2]

\* two invocations of the greedy path of optimize that met no tie
C9_Witness ==
    /\ mode = "opt" /\ impl = "simple" /\ Len(products) > 8
    /\ Len(results) >= 2 /\ ~tied
    /\ results[1] = results[2]
    /\ Len(results[1].optimal_sequence) = Len(products)

\* C10: optimize called with an empty list returns a value with the error
\* field "No products specified", and raises nothing.
C10_EmptyListIsError ==
    (mode = "opt" /\ impl \in {"simple", "fallback"} /\ products = <<>>)
    => \A k \in 1..Len(results) :
          /\ "exc" \notin DOMAIN results[k]
          /\ "error" \in DOMAIN results[k]
          /\ results[k].error = "No products specified"

\* optimize has returned the error value for the empty list
C10_Witness ==
    /\ mode = "opt" /\ impl = "simple" /\ products = <<>>
    /\ Len(results) >= 1
    /\ results[1] = [error |-> "No products specified"]

\* C11: for every non-empty product list that holds a product without profile
\* (a list of one unknown product included), optimize returns a value with an
\* error field and raises nothing.
C11_UnknownIsValidationError ==
    (/\ mode = "opt" /\ impl \in {"simple", "fallback"}
     /\ products # <<>>
     /\ \E i \in 1..Len(products) : products[i] \notin DOMAIN product_profiles)
    => \A k \in 1..Len(results) :
          /\ "exc" \notin DOMAIN results[k]
          /\ "error" \in DOMAIN results[k]

\* dryer_optimization.py, the handler of the optimize button on the value
\* optimize returned: it shows the error, or reads the fields of the result
\* (result[...] on a missing field raises KeyError)
optimize_button(result) ==
    IF "error" \in DOMAIN result THEN [shown |-> "error"]
    ELSE IF ~({"optimal_sequence", "total_transition_cost", "savings_percent",
               "estimated_total_energy", "transitions"} \subseteq DOMAIN result)
    THEN [exc |-> "KeyError"]
    ELSE [shown |-> "result"]

\* the fields of a result
C12_Fields ==
    {"optimal_sequence", "total_transition_cost", "worst_case_cost", "savings_percent",
     "transitions", "recommendations"}

\* C12: every non-error result of optimize carries the sequence, the total
\* transition cost, the worst-case cost, the savings percent, the transitions
\* and the recommendations; for a single product it is the one-element
\* sequence with cost 0 and has all of these fields, so the handler of the
\* optimize button can show it.
C12_SameFields ==
    (mode = "opt" /\ impl \in {"simple", "fallback"})
    => \A k \in 1..Len(results) :
          ("error" \notin DOMAIN results[k] /\ "exc" \notin DOMAIN results[k])
          => /\ C12_Fields \subseteq DOMAIN results[k]
             /\ Len(products) = 1
                => /\ results[k].optimal_sequence = products
                   /\ results[k].total_transition_cost = 0
             /\ "exc" \notin DOMAIN optimize_button(results[k])

\* C13: the savings percent a result reports is (worst - best) / worst * 100
\* (to the one decimal it is rounded to) whenever the worst-case cost is
\* greater than 0, and 0 when the worst-case cost is 0; the fraction
\* optimize_production_sequence reports is (worst - best) / worst over a
\* non-zero denominator, or 0.
C13_SavingsGuarded ==
    mode = "opt"
    => \A k \in 1..Len(results) :
          /\ "savings_percent" \in DOMAIN results[k]
             => IF results[k].worst_case_cost > 0
                THEN 2 * Abs(results[k].savings_percent * results[k].worst_case_cost
                             - 1000 * (results[k].worst_case_cost
                                       - results[k].total_transition_cost))
                         <= results[k].worst_case_cost
                ELSE results[k].savings_percent = 0
          /\ ("metrics" \in DOMAIN results[k] /\ results[k].metrics # <<>>)
             => /\ results[k].metrics.savings_vs_worst[2] # 0
                /\ results[k].metrics.savings_vs_worst =
                       IF results[k].metrics.worst_cost > 0
                       THEN <<results[k].metrics.worst_cost - results[k].metrics.best_cost,
                              results[k].metrics.worst_cost>>
                       ELSE <<0, 1>>

\* optimize has reported savings over a positive worst-case cost
C13_Witness ==
    /\ mode = "opt" /\ impl = "simple" /\ Len(results) >= 1
    /\ "savings_percent" \in DOMAIN results[1]
    /\ results[1].worst_case_cost > results[1].total_transition_cost
    /\ results[1].total_transition_cost > 0
    /\ results[1].savings_percent > 0

\* C14: when the interval table explode_intervals returned has no rows,
\* allocate_energy returns an allocation result without rows, whatever the
\* energy readings, and raises nothing.
C14_EmptyIntervalsEmptyAllocation ==
    (/\ mode = "alloc" /\ pc \in {"allocated", "raised", "summarized"}
     /\ ivals = explode_intervals(NoTable))
    => /\ "exc" \notin DOMAIN alloc
       /\ alloc.rows = <<>>

----------------------------------------------------------------------------
(* The transition costs: the database builder makes its matrix from the
   profiles of two products, and calculate_transition_cost of dryer_kpi_app.py
   is called on the same two products in both directions *)

\* the profile analyze_all_data builds for a product: thickness and type from
\* the name; avg_kwh_per_m3 is the summed energy over the summed volume, NaN
\* when the volume sums to zero; the zone's kwh_per_m3 is a number
BuilderProfile(product, avg, z2) ==
    [type |-> _extract_type(product),
     thickness_mm |-> _extract_thickness(product),
     avg_kwh_per_m3 |-> avg,
     kwh_per_wagon |-> kwh_per_wagon(product),
     zone_profiles |-> IF z2 = None THEN <<>> ELSE ("Z2" :> [kwh_per_m3 |-> val(z2)])]

CostNames == {"L20", "L30", "N22"}
CostEnergies == {NaT, Some(100), Some(130)}
CostZones == {None, Some(0), Some(120)}

Init_Cost ==
    /\ mode = "cost"
    /\ HistIdle
    /\ pc = "profiled"
    /\ impl = "none"
    /\ \E a, b \in CostNames, avg_a, avg_b \in CostEnergies, z_a, z_b \in CostZones :
          /\ products = <<a, b>>
          /\ builder_profiles = (a :> BuilderProfile(a, avg_a, z_a))
                                    @@ (b :> BuilderProfile(b, avg_b, z_b))
    /\ builder_matrix = <<>>
    /\ historical_data \in {None, Some(HistoricalMeans)}
    /\ wagons_per_product = None
    /\ results = <<>>
    /\ tied = FALSE
    /\ w_raw = NoTable /\ w = NoTable /\ ivals = NoTable
    /\ row = NoRow /\ zi = 0 /\ prev_end = None /\ intervals = <<>>
    /\ AllocIdle

\* transition_matrix = builder.calculate_transition_matrix()
CalculateTransitionMatrix ==
    /\ mode = "cost" /\ pc = "profiled"
    /\ builder_matrix' = transition_matrix_of(builder_profiles)
    /\ pc' = "built"
    /\ UNCHANGED <<hist_vars, mode, impl, products, historical_data, wagons_per_product,
                   builder_profiles, results, tied, wagon_vars, build_vars, alloc_vars>>

\* calculate_transition_cost(prod1, prod2, historical_data) for every pair of
\* the two products
CalculateTransitionCost ==
    /\ mode = "cost" /\ results = <<>>
    /\ results' = [i \in 1..4 |->
                      LET prod1 == products[IF i \in {1, 2} THEN 1 ELSE 2]
                          prod2 == products[IF i \in {1, 3} THEN 1 ELSE 2]
                      IN  [prod1 |-> prod1, prod2 |-> prod2,
                           cost |-> calculate_transition_cost(prod1, prod2, historical_data)]]
    /\ UNCHANGED <<hist_vars, mode, pc, impl, products, historical_data, wagons_per_product,
                   builder_profiles, builder_matrix, tied,
                   wagon_vars, build_vars, alloc_vars>>

Next_Cost == CalculateTransitionMatrix \/ CalculateTransitionCost

SpecCost == Init_Cost /\ [][Next_Cost]_vars

\* C15: the transition cost is symmetric, zero on the diagonal and never
\* negative, for all products of the builder's transition matrix and for
\* calculate_transition_cost.
C15_SymmetricZeroDiagonal ==
    mode = "cost"
    => /\ \A a, b \in DOMAIN builder_matrix :
             /\ notna(builder_matrix[a][b])
             /\ builder_matrix[a][b] = builder_matrix[b][a]
             /\ val(builder_matrix[a][b]) >= 0
             /\ builder_matrix[a][a] = Some(0)
       /\ \A i, j \in 1..Len(results) :
             /\ results[i].cost >= 0
             /\ results[i].prod1 = results[i].prod2 => results[i].cost = 0
             /\ (results[i].prod1 = results[j].prod2 /\ results[i].prod2 = results[j].prod1)
                => results[i].cost = results[j].cost

\* C16: when the wagon table has no column whose name starts with "WG-",
\* parse_wagon followed by explode_intervals ends in an error for the caller,
\* never in an interval table (which is how the no-interval outcome ends).
C16_MissingWagonColumnIsError ==
    (/\ mode = "wagon" /\ pc \in {"exploded", "raised"}
     /\ WGColumns \cap w_raw.columns = {})
    => "exc" \in DOMAIN ivals

\* the zone of the last iteration of build_intervals, and whether that
\* iteration emitted an interval
LastZone == zones_seq[zi]
LastEmitted == intervals # <<>> /\ intervals[Len(intervals)][1] = LastZone

\* C17: the entry time of an emitted interval is the zone's recorded entry
\* when present; when absent it is the end of the previous interval, and the
\* dryer start t0 only for the first zone Z1, never for a later zone.
C17_DryerStartOnlyForFirstZone ==
    (mode = "build" /\ zi >= 1 /\ LastEmitted)
    => LET start == intervals[Len(intervals)][2]
           rec_in == row[LastZone \o "_in"]
       IN  IF notna(rec_in) THEN start = val(rec_in)
           ELSE IF zi = 1 THEN start = val(row["t0"])
           ELSE /\ Len(intervals) >= 2
                /\ start = intervals[Len(intervals) - 1][3]

\* C18: an iteration of build_intervals whose leg has an unknown entry or exit,
\* or an exit that does not strictly follow the entry, emits no interval and
\* leaves prev_end unchanged; prev_end changes only when an interval is
\* emitted, and then it is that interval's end.
C18_PointerMovesOnlyOnEmit ==
    [][(mode = "build" /\ zi' = zi + 1)
       => LET zone == zones_seq[zi']
              rec_in == row'[zone \o "_in"]
              zone_in == IF notna(rec_in) THEN rec_in
                         ELSE IF prev_end # None THEN prev_end ELSE row'["t0"]
              zone_dur == row'[zone \o "_dur"]
              dropped == isna(zone_in) \/ isna(zone_dur) \/ val(zone_dur) <= 0
          IN  /\ dropped => intervals' = intervals
              /\ \/ intervals' = intervals /\ prev_end' = prev_end
                 \/ /\ Len(intervals') = Len(intervals) + 1
                    /\ SubSeq(intervals', 1, Len(intervals)) = intervals
                    /\ intervals'[Len(intervals')][1] = zone
                    /\ prev_end' = Some(intervals'[Len(intervals')][3])]_vars

\* Z1 was emitted, then a leg with a computed exit that does not follow its
\* entry was dropped and the pointer still is the end of Z1's interval
C18_Witness ==
    /\ mode = "build" /\ zi >= 2
    /\ Len(intervals) = 1 /\ intervals[1][1] = "Z1"
    /\ row[LastZone \o "_dur"] = Some(0)
    /\ prev_end = Some(intervals[1][3])

\* the record allocate_energy would emit for reading er and interval pr
C19_Record(er, pr, zone_label, ecol) ==
    [c \in alloc_columns |->
        CASE c = "Month" -> er["Month"]
          [] c = "Produkt" -> pr["Produkt"]
          [] c = "m3" -> pr["m3"]
          [] c = "Energy_share_kWh" -> val(er[ecol]) * C3_Overlap(er, pr)
          [] c = "Overlap_h" -> C3_Overlap(er, pr)
          [] c = "Zone" -> zone_label]

\* C19: for each zone, every reading whose value for the zone is present and
\* non-zero (a negative value included) is allocated to every interval of the
\* zone it overlaps, and a reading whose value is absent or zero gives no
\* allocation record.
C19_NonZeroReadingsUsed ==
    (Allocated /\ "Zone" \in ivals.columns)
    => \A z \in 1..Len(ZONE_ENERGY_MAPPING) :
          LET zone_label == ZONE_ENERGY_MAPPING[z][1]
              ecol == energy_col(ZONE_ENERGY_MAPPING[z][2])
          IN  ecol \in e.columns
              => \A i \in 1..Len(e.rows), j \in 1..Len(ivals.rows) :
                    (ivals.rows[j]["Zone"] = zone_label
                     /\ C3_Overlap(e.rows[i], ivals.rows[j]) > 0)
                    => IF notna(e.rows[i][ecol]) /\ val(e.rows[i][ecol]) # 0
                       THEN \E k \in 1..Len(alloc.rows) :
                               alloc.rows[k] = C19_Record(e.rows[i], ivals.rows[j],
                                                          zone_label, ecol)
                       ELSE \A k \in 1..Len(alloc.rows) :
                               ~(/\ alloc.rows[k]["Zone"] = zone_label
                                 /\ alloc.rows[k]["Energy_share_kWh"] = 0)

\* the sequences the greedy path of the implementation can return for prods
C20_GreedySequences(ctx, prods) ==
    {IF ctx.impl = "app" THEN two_opt(ctx, o.sequence) ELSE o.sequence :
        o \in Greedy(ctx, prods)}

\* C20: every optimizer searches a list of 2 to 8 known products exhaustively
\* and returns the first cheapest permutation, and takes the greedy path only
\* for a list of more than 8 products; the threshold is the same in every
\* implementation.
C20_ExhaustiveUpToEight ==
    (mode = "opt" /\ Len(products) >= 2 /\ Range(products) \subseteq Catalogue
     /\ results # <<>>)
    => LET ctx == Ctx(impl, historical_data)
       IN  IF Len(products) <= 8
           THEN \A best \in {_exhaustive_search(ctx, products).best_seq} :
                   \A k \in 1..Len(results) : SequenceOf(results[k]) = best
           ELSE \A k \in 1..Len(results) :
                   SequenceOf(results[k]) \in C20_GreedySequences(ctx, products)

----------------------------------------------------------------------------
(* Claims about the order of the exhaustive search *)

\* the orders in which the positions 1..n of a list can be taken
C21_Orders(n) == {p \in [1..n -> 1..n] : \A i, j \in 1..n : p[i] = p[j] => i = j}

\* itertools.permutations yields order p before order q
C21_Before(p, q) ==
    \E i \in 1..Len(p) : p[i] < q[i] /\ \A j \in 1..(i - 1) : p[j] = q[j]

\* the permutation of prods that takes its positions in order p
C21_Permutation(prods, p) == [i \in 1..Len(prods) |-> prods[p[i]]]

\* the first, in enumeration order, of the cheapest permutations of prods
C21_FirstOfCheapest(ctx, prods) ==
    LET cost(p) == _calculate_sequence_cost(ctx, C21_Permutation(prods, p))
        orders == C21_Orders(Len(prods))
        first == CHOOSE p \in orders :
                    /\ \A q \in orders : cost(p) <= cost(q)
                    /\ \A q \in orders : C21_Before(q, p) => cost(p) < cost(q)
    IN  C21_Permutation(prods, first)

\* the list is searched exhaustively and is short enough to enumerate here
C21_Searched ==
    /\ mode = "opt" /\ Len(products) \in 2..MaxList
    /\ Range(products) \subseteq Catalogue
    /\ results # <<>>

\* C21: when several permutations share the minimum cost, the exhaustive
\* search returns the first of them in the enumeration order of the
\* permutations of the input list, because a later permutation replaces the
\* current best only if it costs strictly less.
C21_FirstCheapestPermutation ==
    C21_Searched
    => \A first \in {C21_FirstOfCheapest(Ctx(impl, historical_data), products)} :
          \A k \in 1..Len(results) : SequenceOf(results[k]) = first

\* the search has returned the first of several cheapest permutations: another
\* permutation, later in the enumeration, costs the same
C21_Witness ==
    /\ C21_Searched /\ impl = "simple"
    /\ \E p \in C21_Orders(Len(products)) :
          /\ C21_Permutation(products, p) # SequenceOf(results[1])
          /\ _calculate_sequence_cost(Simple, C21_Permutation(products, p))
                = results[1].total_transition_cost
    /\ SequenceOf(results[1]) = C21_FirstOfCheapest(Simple, products)

----------------------------------------------------------------------------
(* Claims about the greedy path *)

\* ten times (transition cost from current to candidate + 0.3 * the cheapest
\* transition cost from the candidate to another remaining product)
C22_Lookahead(current, candidate, remaining) ==
    10 * calculate_transition_matrix[current][candidate]
    + (IF remaining = {candidate} THEN 0
       ELSE 3 * MinOf({calculate_transition_matrix[candidate][fp] :
                          fp \in remaining \ {candidate}}))

\* the products not yet chosen before position i of sequence s
C22_Remaining(s, i) == Range(products) \ {s[j] : j \in 1..(i - 1)}

\* sequence s was built by the rule: a thinnest product first, then always a
\* product of least lookahead score among those not yet chosen
C22_BuiltByRule(s) ==
    /\ s # <<>>
    /\ s[1] \in Range(products)
    /\ \A q \in Range(products) : NameDigits[s[1]] <= NameDigits[q]
    /\ \A i \in 2..Len(s) :
          /\ s[i] \in C22_Remaining(s, i)
          /\ \A q \in C22_Remaining(s, i) :
                C22_Lookahead(s[i - 1], s[i], C22_Remaining(s, i))
                    <= C22_Lookahead(s[i - 1], q, C22_Remaining(s, i))

\* C22: for more than 8 products the greedy path starts from a product of
\* minimum thickness and at each step appends the not yet chosen product that
\* minimises the transition cost from the current product plus 0.3 times the
\* cheapest transition cost from the candidate to another remaining product
\* (0 for the last remaining product); the returned cost is the sum of the
\* consecutive transition costs of the sequence.
C22_GreedyWithLookahead ==
    (mode = "opt" /\ impl \in {"simple", "fallback"} /\ Len(products) > 8
     /\ Range(products) \subseteq Catalogue)
    => \A k \in 1..Len(results) :
          /\ C22_BuiltByRule(results[k].optimal_sequence)
          /\ results[k].total_transition_cost
                = _calculate_sequence_cost(Ctx(impl, None), results[k].optimal_sequence)

----------------------------------------------------------------------------
(* Claims about the recommendations *)

\* the recommendations of result hold an item of the kind for the pair
C23_PairItem(result, kind, from, to) ==
    \E n \in 1..Len(result.recommendations) :
        /\ result.recommendations[n].kind = kind
        /\ result.recommendations[n].from = from
        /\ result.recommendations[n].to = to

\* C23: the recommendations of a result hold, for every consecutive pair of
\* the sequence, a high-cost item if and only if the transition costs more
\* than 100 kWh and a cleaning item if and only if the material types of the
\* two products differ, and they hold a shift-planning item if and only if
\* demand is given and its total exceeds 100 wagons.
C23_RecommendationsFollowRules ==
    (mode = "opt" /\ impl \in {"simple", "fallback"} /\ Len(products) >= 2)
    => \A k \in 1..Len(results) :
          "recommendations" \in DOMAIN results[k]
          => LET seq == results[k].optimal_sequence
             IN  /\ \A i \in 1..(Len(seq) - 1) :
                       /\ C23_PairItem(results[k], "high_cost", seq[i], seq[i + 1])
                             <=> calculate_transition_matrix[seq[i]][seq[i + 1]] > 10000
                       /\ C23_PairItem(results[k], "type_change", seq[i], seq[i + 1])
                             <=> NameLetter[seq[i]] # NameLetter[seq[i + 1]]
                 /\ (\E n \in 1..Len(results[k].recommendations) :
                        results[k].recommendations[n].kind = "high_volume")
                    <=> (/\ wagons_per_product # None
                         /\ total_wagons(wagons_per_product) > 100)

\* dryer_kpi_app.py, the optimize button: the recommendations shown for the
\* returned order, a thickness item for a change of more than 6 mm and a
\* type item for a change of the first letter
production_recommendations(optimal_order) ==
    Flatten([i \in 1..(Len(optimal_order) - 1) |->
        LET curr == optimal_order[i]
            next_prod == optimal_order[i + 1]
        IN  (IF Abs(NameDigits[next_prod] - NameDigits[curr]) > 6
             THEN <<[kind |-> "thickness_change", from |-> curr, to |-> next_prod]>>
             ELSE <<>>)
            \o (IF NameLetter[curr] # NameLetter[next_prod]
                THEN <<[kind |-> "type_change", from |-> curr, to |-> next_prod]>>
                ELSE <<>>)])

\* the recommendations that come with a result
C24_Recommendations(result) ==
    IF "best_order" \in DOMAIN result THEN production_recommendations(result.best_order)
    ELSE result.recommendations

\* C24: for every consecutive pair of the returned sequence whose thicknesses
\* differ by more than the jump threshold (8 mm, the upper end of the range the
\* specification gives), the recommendations hold an item that asks for extra
\* setup time for that pair: a thickness item, or the high-cost item, whose
\* text says "Allow extra setup time".
C24_ThicknessJumpFlagged ==
    (mode = "opt" /\ Len(products) >= 2 /\ Range(products) \subseteq Catalogue)
    => \A k \in 1..Len(results) :
          ("best_order" \in DOMAIN results[k] \/ "recommendations" \in DOMAIN results[k])
          => LET seq == SequenceOf(results[k])
                 recs == C24_Recommendations(results[k])
             IN  \A i \in 1..(Len(seq) - 1) :
                    Abs(NameDigits[seq[i + 1]] - NameDigits[seq[i]]) > 8
                    => \E n \in 1..Len(recs) :
                          /\ recs[n].kind \in {"thickness_change", "high_cost"}
                          /\ recs[n].from = seq[i]
                          /\ recs[n].to = seq[i + 1]

----------------------------------------------------------------------------
(* HistoricalDataManager (historical_manager.py and dryer_kpi_app.py): the two
   pickled histories.  An entry is kept as its timestamp; the entries found in
   a file at the start carry the stamps up to 0, the clock starts at 1. *)

MaxSaves == 3       \* how many saves a behaviour calls

Managers == {"historical_manager", "dryer_kpi_app"}

\* "if len(history) > N: history = history[-N:]": N for the KPI history and
\* for the optimization history, by class
max_kpi_entries == [historical_manager |-> 100, dryer_kpi_app |-> 30]
max_optimization_entries == [historical_manager |-> 50, dryer_kpi_app |-> 30]

max_entries(m, file) ==
    IF file = "kpi" THEN max_kpi_entries[m] ELSE max_optimization_entries[m]

\* load_kpi_history / load_optimization_history: the pickled list, [] without
\* the file
load_history(file) == IF file = None THEN <<>> ELSE file[1]

\* a history that is cut keeps its first n entries
keep_first(history, n) ==
    IF Len(history) > n THEN SubSeq(history, 1, n) ELSE history

\* if len(history) > n: history = history[-n:]
keep_last(history, n) ==
    IF Len(history) > n THEN SubSeq(history, Len(history) - n + 1, Len(history))
    ELSE history

\* a save that writes its entry without the history it loaded
dumped_without_history(history, entry, n) == <<entry>>

\* history.append(entry), the cut, and the list that pickle.dump writes
dumped(history, entry, n) == keep_last(Append(history, entry), n)

\* the results a caller passes to save_kpi_results: None, a dict whose yearly
\* frame has no rows, a dict whose yearly frame has rows
KpiResults == {"None", "empty", "ok"}

\* save_kpi_results as one call: the file after it and what it returned.
\* dryer_kpi_app.py returns False for None and for an empty yearly frame;
\* historical_manager.py raises on None at results['summary'] and saves an
\* empty yearly frame like any other
save_kpi_results(m, file, kpi_results, timestamp) ==
    LET written == [file |-> Some(dumped(load_history(file), timestamp, max_kpi_entries[m])),
                    returned |-> "True"]
    IN  IF m = "dryer_kpi_app"
        THEN (IF kpi_results \in {"None", "empty"}
              THEN [file |-> file, returned |-> "False"]
              ELSE written)
        ELSE (IF kpi_results = "None"
              THEN [file |-> file, returned |-> "TypeError"]
              ELSE written)

\* save_optimization_result as one call: the file after it
save_optimization_result(m, file, timestamp) ==
    Some(dumped(load_history(file), timestamp, max_optimization_entries[m]))

\* a history of n entries that earlier saves left in a file
StoredHistory(n) == [i \in 1..n |-> i - n]

\* a file as the program can have left it: missing, or holding one entry, one
\* entry less than the most, or the most
StoredFiles(n) == {None} \cup {Some(StoredHistory(k)) : k \in {1, n - 1, n}}

\* the variables of the other parts of the program while the history runs
HistOnly ==
    /\ w_raw = NoTable /\ w = NoTable /\ ivals = NoTable
    /\ row = NoRow /\ zi = 0 /\ prev_end = None /\ intervals = <<>>
    /\ AllocIdle
    /\ OptIdle

Init_Hist ==
    /\ mode = "hist"
    /\ pc = "ready"
    /\ manager \in Managers
    /\ kpi_file \in StoredFiles(max_kpi_entries[manager])
    /\ optimization_file \in StoredFiles(max_optimization_entries[manager])
    /\ clock = 1
    /\ saved = [kpi |-> load_history(kpi_file),
                optimization |-> load_history(optimization_file)]
    /\ sessions = <<>>
    /\ HistOnly

\* hdm.save_kpi_results(results): one call, from its load to its return
SaveKpiResults ==
    /\ mode = "hist" /\ clock <= MaxSaves
    /\ \E kpi_results \in KpiResults :
          LET out == save_kpi_results(manager, kpi_file, kpi_results, clock)
          IN  /\ kpi_file' = out.file
              /\ pc' = out.returned
              /\ saved' = IF out.returned = "True"
                          THEN [saved EXCEPT !.kpi = Append(@, clock)]
                          ELSE saved
    /\ clock' = clock + 1
    /\ UNCHANGED <<mode, manager, optimization_file, sessions,
                   wagon_vars, build_vars, alloc_vars, opt_vars>>

\* hdm.save_optimization_result(products, optimal_order, metrics): one call
SaveOptimizationResult ==
    /\ mode = "hist" /\ clock <= MaxSaves
    /\ optimization_file' = save_optimization_result(manager, optimization_file, clock)
    /\ pc' = "None"
    /\ saved' = [saved EXCEPT !.optimization = Append(@, clock)]
    /\ clock' = clock + 1
    /\ UNCHANGED <<mode, manager, kpi_file, sessions,
                   wagon_vars, build_vars, alloc_vars, opt_vars>>

Next_Hist == SaveKpiResults \/ SaveOptimizationResult

SpecHist == Init_Hist /\ [][Next_Hist]_vars

----------------------------------------------------------------------------
(* Two sessions of the page save to the same storage path; each save is its
   load (open, pickle.load, close) and later its write (append, cut, open,
   pickle.dump, close), and the steps of the two sessions interleave. *)

Sessions == {1, 2}

NoSave == [pc |-> "idle", file |-> "none", history |-> <<>>, entry |-> 0]

Init_Sessions ==
    /\ mode = "sessions"
    /\ pc = "running"
    /\ manager \in Managers
    /\ kpi_file \in StoredFiles(max_kpi_entries[manager]) \ {Some(StoredHistory(1))}
    /\ optimization_file
          \in StoredFiles(max_optimization_entries[manager]) \ {Some(StoredHistory(1))}
    /\ clock = 1
    /\ saved = [kpi |-> load_history(kpi_file),
                optimization |-> load_history(optimization_file)]
    /\ sessions = [s \in Sessions |-> NoSave]
    /\ HistOnly

\* history = self.load_kpi_history() / self.load_optimization_history() of a
\* save of session s, whose entry is stamped now
LoadHistory(s) ==
    /\ mode = "sessions" /\ sessions[s].pc = "idle" /\ clock <= MaxSaves
    /\ \E file \in {"kpi", "optimization"} :
          sessions' = [sessions EXCEPT ![s] =
                          [pc |-> "loaded", file |-> file,
                           history |-> load_history(IF file = "kpi" THEN kpi_file
                                                    ELSE optimization_file),
                           entry |-> clock]]
    /\ clock' = clock + 1
    /\ UNCHANGED <<mode, pc, manager, kpi_file, optimization_file, saved,
                   wagon_vars, build_vars, alloc_vars, opt_vars>>

\* history.append(entry), the cut and pickle.dump(history, f) of the save of
\* session s
DumpHistory(s) ==
    /\ mode = "sessions" /\ sessions[s].pc = "loaded"
    /\ LET file == sessions[s].file
           written == Some(dumped(sessions[s].history, sessions[s].entry,
                                  max_entries(manager, file)))
       IN  /\ kpi_file' = IF file = "kpi" THEN written ELSE kpi_file
           /\ optimization_file' = IF file = "kpi" THEN optimization_file ELSE written
           /\ saved' = [saved EXCEPT ![file] = Append(@, sessions[s].entry)]
    /\ sessions' = [sessions EXCEPT ![s] = NoSave]
    /\ UNCHANGED <<mode, pc, manager, clock,
                   wagon_vars, build_vars, alloc_vars, opt_vars>>

Next_Sessions == \E s \in Sessions : LoadHistory(s) \/ DumpHistory(s)

SpecSessions == Init_Sessions /\ [][Next_Sessions]_vars

----------------------------------------------------------------------------
(* Claims about the histories *)

\* the list stored in the file of the name, before and after a step
C25_Stored(file) == load_history(IF file = "kpi" THEN kpi_file ELSE optimization_file)
C25_StoredNext(file) == load_history(IF file = "kpi" THEN kpi_file' ELSE optimization_file')

\* history a is the beginning of history b
C25_IsPrefix(a, b) == Len(a) <= Len(b) /\ SubSeq(b, 1, Len(a)) = a

\* history a is the end of history b
C25_IsSuffix(a, b) ==
    Len(a) <= Len(b) /\ SubSeq(b, Len(b) - Len(a) + 1, Len(b)) = a

C26_Count(s, x) == Cardinality({i \in 1..Len(s) : s[i] = x})

\* sequence a holds every element as often as sequence b does
C26_IsPermutation(a, b) ==
    /\ Len(a) = Len(b)
    /\ \A x \in Range(a) \cup Range(b) : C26_Count(a, x) = C26_Count(b, x)

\* C26: the sequence optimize returns, on the exhaustive and on the greedy
\* path, and the worst-case sequence of _worst_case each hold every element of
\* the input list exactly as often as the input does, also for a list of odd
\* length and for a list that names a product twice.
C26_ResultIsPermutation ==
    (mode = "opt" /\ impl = "simple" /\ Len(products) >= 2
     /\ Range(products) \subseteq Catalogue)
    => /\ C26_IsPermutation(_worst_case(products).worst_seq, products)
       /\ \A k \in 1..Len(results) :
             C26_IsPermutation(results[k].optimal_sequence, products)

\* the cost of the returned sequence and the worst-case cost of a result
C27_Best(result) ==
    IF "metrics" \in DOMAIN result THEN result.metrics.best_cost
    ELSE result.total_transition_cost

C27_Worst(result) ==
    IF "metrics" \in DOMAIN result THEN result.metrics.worst_cost
    ELSE result.worst_case_cost

\* the result of an optimization of two or more products that met no error
C27_Optimized(result) ==
    IF "metrics" \in DOMAIN result THEN result.metrics # <<>>
    ELSE "worst_case_cost" \in DOMAIN result

\* C27: in every result of an optimization of two or more products the
\* worst-case cost is at least the cost of the returned sequence, so the
\* savings lie between 0 and 100 percent; on the exhaustive and on the greedy
\* path, with the alternating and with the reversed worst case.
C27_WorstAtLeastBest ==
    (mode = "opt" /\ Len(products) >= 2)
    => \A k \in 1..Len(results) :
          C27_Optimized(results[k])
          => /\ C27_Worst(results[k]) >= C27_Best(results[k])
             /\ IF "metrics" \in DOMAIN results[k]
                THEN /\ results[k].metrics.savings_vs_worst[1] >= 0
                     /\ results[k].metrics.savings_vs_worst[1]
                           <= results[k].metrics.savings_vs_worst[2]
                ELSE results[k].savings_percent \in 0..1000

----------------------------------------------------------------------------
(* Claims about the volume of a summary group *)

\* the name of the energy column of the zone with the label
C28_EnergyCol(zone_label) ==
    energy_col((CHOOSE zm \in Range(ZONE_ENERGY_MAPPING) : zm[1] = zone_label)[2])

\* the wagons allocated to the group of summary row r: the intervals of its
\* product and zone that overlap a reading of its month that has energy
C28_Wagons(r) ==
    {j \in 1..Len(ivals.rows) :
        /\ ivals.rows[j]["Zone"] = r.Zone
        /\ ivals.rows[j]["Produkt"] = r.Produkt
        /\ \E i \in 1..Len(e.rows) :
              /\ e.rows[i]["Month"] = r.Month
              /\ notna(e.rows[i][C28_EnergyCol(r.Zone)])
              /\ val(e.rows[i][C28_EnergyCol(r.Zone)]) > 0
              /\ C3_Overlap(e.rows[i], ivals.rows[j]) > 0}

\* C28: in a group (month, product, zone) of the monthly summary the volume of
\* each wagon is counted once, however many readings the wagon's interval in
\* the zone overlaps: Volume_m3 is the sum of the volumes of the distinct
\* wagons allocated to the group.
C28_VolumeOncePerWagon ==
    (mode = "alloc" /\ pc = "summarized" /\ "Zone" \in ivals.columns)
    => \A r \in summary :
          r.Volume_m3 = SumSet(LAMBDA j : IF isna(ivals.rows[j]["m3"]) THEN 0
                                          ELSE val(ivals.rows[j]["m3"]),
                               C28_Wagons(r))

\* the most entries the stored history of the file may hold
C29_Cap(file) ==
    IF manager = "historical_manager"
    THEN (IF file = "kpi" THEN 100 ELSE 50)
    ELSE 30

\* C29: after any sequence of saves the stored KPI history holds at most 100
\* entries (historical_manager.py) or 30 (dryer_kpi_app.py) and the stored
\* optimization history at most 50 or 30; beyond that the oldest entries are
\* dropped, so the stored history is exactly the most recent entries, in the
\* order they were saved.
C29_MostRecentWithinCap ==
    mode = "hist"
    => \A file \in {"kpi", "optimization"} :
          LET stored == C25_Stored(file)
              all == saved[file]
          IN  /\ Len(stored) <= C29_Cap(file)
              /\ Len(stored) = Min2(Len(all), C29_Cap(file))
              /\ \A i \in 1..Len(stored) :
                    stored[i] = all[Len(all) - Len(stored) + i]

\* a save has found the KPI history full and has dropped its oldest entry
C29_Witness ==
    /\ mode = "hist"
    /\ Len(saved.kpi) > C29_Cap("kpi")
    /\ Len(C25_Stored("kpi")) = C29_Cap("kpi")
    /\ C25_Stored("kpi")[C29_Cap("kpi")] = saved.kpi[Len(saved.kpi)]
    /\ saved.kpi[Len(saved.kpi)] >= 1
    /\ C25_Stored("kpi")[1] # saved.kpi[1]

\* C30: when the saves of two sessions on the same storage path interleave,
\* each loading the whole history, appending and writing the whole history,
\* the entries of both are in the stored history once both saves have
\* completed: no save is lost.
C30_NoSaveLost ==
    (mode = "sessions" /\ \A s \in Sessions : sessions[s].pc = "idle")
    => \A file \in {"kpi", "optimization"} :
          \A i \in 1..Len(saved[file]) :
             saved[file][i] >= 1
             => \E n \in 1..Len(C25_Stored(file)) : C25_Stored(file)[n] = saved[file][i]

====
